---- MODULE Spec2Model ----
(***************************************************************************)
(* Job distribution core of agentflow-distribution: intake (QueueService), *)
(* agent matching (AgentMatcherService), distribution records              *)
(* (JobDistributorService), execution tracking (ExecutionTrackerService)   *)
(* and the orchestration of ExecuterService / ExecuterController.          *)
(*                                                                         *)
(* The data store is the set of tables of prisma/schema.prisma.  Every     *)
(* awaited store call is a point where other handlers may run; an action   *)
(* below is one handler, or the part of a handler between two such points  *)
(* that the properties need to tell apart.                                 *)
(***************************************************************************)
EXTENDS Integers, Sequences, FiniteSets, TLC

\* ------------------------------------------------------------------ bounds
Jobs == {"j1", "j2"}
Agents == {"a1", "a2"}

NumWorkers == 2      \* orchestration tasks that can run at the same time
MaxClock == 2        \* readings of new Date() range over 1..MaxClock
MaxDist == 3         \* distribution ids are 1..MaxDist
MaxCallbacks == 2    \* agent-facing callback requests accepted in one run
MaxRetriesInput == 2 \* retryConfig.maxRetries ranges over 0..MaxRetriesInput
MaxAddresses == 2    \* batchHealthCheck is given up to MaxAddresses addresses

\* ------------------------------------------------------- program constants
\* process.env.MAX_AGENTS_PER_JOB || '3'
MaxAgentsPerJob == 3
\* process.env.EXECUTION_RETRY_COUNT || '2'
DefaultMaxRetries == 2
ScoreUnit == 60000

\* ------------------------------------------------------------ value spaces
\* enum JobStatus; "ABSENT" stands for a job row that has been deleted
JobStatuses == {"OPEN", "DISTRIBUTED", "IN_PROGRESS", "COMPLETED", "CANCELLED", "EXPIRED"}
JobTerminal == {"COMPLETED", "CANCELLED", "EXPIRED"}

\* enum AgentWorkStatus
WorkStatuses == {"IDLE", "ASSIGNED", "WORKING", "COMPLETED", "FAILED", "CANCELLED", "TIMEOUT"}
TerminalStatuses == {"COMPLETED", "FAILED", "CANCELLED", "TIMEOUT"}
ActiveStatuses == {"ASSIGNED", "WORKING"}

Null == "null"              \* a NULL text column, an undefined text argument
NoTime == 0                 \* a NULL DateTime column (getTime() || 0)
NoMs == -1                  \* a NULL / undefined executionTimeMs
NoBudget == -1              \* a NULL maxBudget
NoAgent == "none"           \* assignedAgentId IS NULL
NoOrigin == 0               \* a handler started by the result endpoint, not by a task
NoStatus == 0               \* error.response?.status undefined: the agent did not answer

Workers == 1..NumWorkers

SkillLevels == <<"beginner", "intermediate", "advanced", "expert">>

VARIABLES
  job,          \* table jobs: [Jobs -> row], row.status = "ABSENT" once deleted
  agent,        \* table agents
  records,      \* table job_distribution_records (a set of rows)
  assignments,  \* table job_distribution_agents (a set of rows)
  perf,         \* table agent_performance (a set of rows)
  logs,         \* table execution_logs, as the set of (jobId, agentId, eventType)
  clock,        \* the last reading of new Date()
  worker,       \* the orchestration tasks: one per job being distributed
  handlers,     \* handleExecutionCompleted/Failed calls between their two store steps
  pendingSel,   \* selectBestAgentAndComplete calls between their read and their write
  cbCount,      \* callback requests accepted so far
  noMatch,      \* history: jobs for which a match returned no agent
  openFailed,   \* history: jobs for which createDistributionRecord threw
  rpc,          \* one callAgentAPI invocation: its policy, what each attempt meets, its result
  choice,       \* one choice of a winner: its strategy, the rows as listed, the agent chosen
  noWinner,     \* history: distributions on which a selection returned without a winner
  health,       \* one batchHealthCheck: the addresses, what each probe meets, the statuses
  notFound      \* history: the tracker calls that threw for want of their row

vars == <<job, agent, records, assignments, perf, logs, clock, worker, handlers,
          pendingSel, cbCount, noMatch, openFailed, rpc, choice,
          noWinner, health, notFound>>

\* ---------------------------------------------------------------- helpers
RECURSIVE GCD(_, _)
GCD(a, b) == IF b = 0 THEN a ELSE GCD(b, a % b)

\* A Float that is a quotient of two counters, kept in lowest terms.
Ratio(n, d) == LET g == GCD(n, d) IN IF g = 0 THEN [n |-> 0, d |-> 1] ELSE [n |-> n \div g, d |-> d \div g]

Min(a, b) == IF a <= b THEN a ELSE b
Max(a, b) == IF a >= b THEN a ELSE b

Range(s) == {s[i] : i \in DOMAIN s}

\* The orders in which a query without a total ORDER BY may list the rows S.
Perms(S) == {s \in [1..Cardinality(S) -> S] : \A i, k \in DOMAIN s : i # k => s[i] # s[k]}

\* Array.prototype.slice(0, n) for n >= 0
Slice(s, n) == SubSeq(s, 1, Min(n, Len(s)))

\* ------------------------------------------------------- table lookups
JobExists(j) == job[j].status # "ABSENT"

RecordsOfJob(j) == {r \in records : r.jobId = j}
HasRecord(d) == \E r \in records : r.id = d
RecordOf(d) == CHOOSE r \in records : r.id = d

RowsOf(d) == {r \in assignments : r.jobDistributionId = d}
HasRow(d, a) == \E r \in assignments : r.jobDistributionId = d /\ r.agentId = a
Row(d, a) == CHOOSE r \in assignments : r.jobDistributionId = d /\ r.agentId = a

HasPerf(a) == \E p \in perf : p.agentId = a
PerfOf(a) == CHOOSE p \in perf : p.agentId = a

\* cuid(): an id no row holds yet
FreshId == CHOOSE d \in 1..(MaxDist + 1) : \A r \in records : r.id # d

\* ------------------------------------------------- AgentMatcherService
\* skillLevels.indexOf(level): the position on the ordered scale, -1 if absent
SkillIndex(level) ==
  IF \E i \in DOMAIN SkillLevels : SkillLevels[i] = level
  THEN (CHOOSE i \in DOMAIN SkillLevels : SkillLevels[i] = level) - 1
  ELSE -1

isSkillLevelMatch(a, jobSkillLevel) ==
  LET agentLevel == agent[a].agentClassification
      jobLevel == jobSkillLevel
  IN IF agentLevel = "" \/ jobLevel = "" THEN TRUE
     ELSE IF SkillIndex(agentLevel) = -1 \/ SkillIndex(jobLevel) = -1 THEN TRUE
     ELSE SkillIndex(agentLevel) >= SkillIndex(jobLevel)

isCategoryMatch(a, category) == TRUE

checkAgentAvailability(a) ==
  /\ Cardinality({r \in assignments : r.agentId = a /\ r.workStatus \in ActiveStatuses}) = 0
  /\ agent[a].isActive
  /\ agent[a].autoAcceptJobs

\* The findMany of matchAgentsForJob: the WHERE clause built from the criteria.
\* `criteria.maxBudget && ...`: a budget of 0 or NULL adds no price filter.
BaseQuery(j) ==
  {a \in Agents :
     /\ agent[a].isActive
     /\ agent[a].autoAcceptJobs
     /\ (job[j].tags # {} => agent[a].tags \cap job[j].tags # {})
     /\ (job[j].maxBudget > 0 => (agent[a].isFree \/ agent[a].price <= job[j].maxBudget))}

filterValidAgents(S, j) ==
  {a \in S : /\ checkAgentAvailability(a)
             /\ isSkillLevelMatch(a, job[j].skillLevel)
             /\ isCategoryMatch(a, job[j].category)}

matchAgentsForJob(j) == filterValidAgents(BaseQuery(j), j)

\* ORDER BY reputation DESC, successRate DESC, totalJobsCompleted DESC:
\* a is listed strictly before b
DbBefore(a, b) ==
  LET sa == agent[a].successRate
      sb == agent[b].successRate
  IN \/ agent[a].reputation > agent[b].reputation
     \/ /\ agent[a].reputation = agent[b].reputation
        /\ sa.n * sb.d > sb.n * sa.d
     \/ /\ agent[a].reputation = agent[b].reputation
        /\ sa.n * sb.d = sb.n * sa.d
        /\ agent[a].totalJobsCompleted > agent[b].totalJobsCompleted

\* calculateSkillMatch, in tenths of 1/n, n the number of job tags
JobTagCount(j) == Max(Cardinality(job[j].tags), 1)

SkillLevelBonus(a, j) ==
  LET agentClassification == agent[a].agentClassification
      jobSkillLevel == job[j].skillLevel
  IN IF agentClassification = jobSkillLevel THEN 2
     ELSE IF \/ (agentClassification = "expert" /\ jobSkillLevel = "intermediate")
             \/ (agentClassification = "intermediate" /\ jobSkillLevel = "beginner")
          THEN 1
          ELSE 0

\* skillMatch = calculateSkillMatchNum / (10 * JobTagCount)
calculateSkillMatchNum(a, j) ==
  IF job[j].tags = {} THEN 10 * JobTagCount(j)
  ELSE Min(10 * Cardinality(job[j].tags \cap agent[a].tags) + SkillLevelBonus(a, j) * JobTagCount(j),
           10 * JobTagCount(j))

\* reputation = Math.min(agent.reputation / 5.0, 1.0), reputation kept in tenths
ReputationNum(a) == Min(agent[a].reputation, 50)

\* calculateAvailabilityScore, in tenths; every row of the run is younger than 7 days
calculateAvailabilityScore(a) ==
  LET recentAssignments == Cardinality({r \in assignments : r.agentId = a})
  IN IF recentAssignments = 0 THEN 10
     ELSE IF recentAssignments <= 3 THEN 8
     ELSE IF recentAssignments <= 6 THEN 6
     ELSE IF recentAssignments <= 10 THEN 4
     ELSE 2

\* calculateAgentScore: score = ScoreNum / (5000 * JobTagCount * successRate.d),
\* weights 0.35 / 0.25 / 0.25 / 0.15
ScoreNum(a, j) ==
  LET n == JobTagCount(j)
      sr == agent[a].successRate
  IN   35 * calculateSkillMatchNum(a, j) * 5 * sr.d
     + 25 * ReputationNum(a) * n * sr.d
     + 25 * sr.n * 50 * n
     + 15 * calculateAvailabilityScore(a) * 5 * n * sr.d

ScoreGreater(a, b, j) == ScoreNum(a, j) * agent[b].successRate.d > ScoreNum(b, j) * agent[a].successRate.d

\* (a ranking that leaves the agents in any order)
scoreAndRankAgentsUnsorted(S, j) == Perms(S)

\* scoreAndRankAgents: the stable descending sort by score of the query's order
scoreAndRankAgents(S, j) ==
  {s \in Perms(S) :
     \A i, k \in DOMAIN s :
        i < k => /\ ~ScoreGreater(s[k], s[i], j)
                 /\ (~ScoreGreater(s[i], s[k], j) => ~DbBefore(s[k], s[i]))}

\* The agents a job is offered to: the first maxAgents of the ranking (as a set:
\* the order among them decides nothing further).
SelectedAgents(j, maxAgents) ==
  {Range(Slice(s, maxAgents)) : s \in scoreAndRankAgents(matchAgentsForJob(j), j)}

\* --------------------------------------------------------------- the clock
\* new Date(): time does not run backwards; two readings may coincide
Now == {t \in {clock, clock + 1} : t <= MaxClock}

\* ------------------------------------------------ ExecutionTrackerService
StatusUpdate(ws, res, err, ms) ==
  [workStatus |-> ws, executionResult |-> res, errorMessage |-> err, executionTimeMs |-> ms]

\* (an update that writes the status and drops the message)
ApplyUpdateStatusOnly(r, status, now) ==
  [r EXCEPT !.workStatus = status.workStatus,
            !.completedAt = IF status.workStatus \in TerminalStatuses THEN now ELSE @]

\* updateData of updateExecutionStatus applied to one row: workStatus always,
\* the other fields when defined, completedAt on a terminal status
ApplyUpdate(r, status, now) ==
  [r EXCEPT !.workStatus = status.workStatus,
            !.executionResult = IF status.executionResult # Null THEN status.executionResult ELSE @,
            !.errorMessage = IF status.errorMessage # Null THEN status.errorMessage ELSE @,
            !.executionTimeMs = IF status.executionTimeMs # NoMs THEN status.executionTimeMs ELSE @,
            !.completedAt = IF status.workStatus \in TerminalStatuses THEN now ELSE @]

\* (a tracker that writes the new state of the row as a further row)
updateExecutionStatusInsert(d, a, status, now) ==
  assignments \cup {ApplyUpdate(r, status, now) :
                      r \in {x \in assignments : x.jobDistributionId = d /\ x.agentId = a}}

\* prisma.jobDistributionAgent.update where (distributionId, agentId): the table after it
updateExecutionStatus(d, a, status, now) ==
  {IF r.jobDistributionId = d /\ r.agentId = a THEN ApplyUpdate(r, status, now) ELSE r :
     r \in assignments}

\* logExecutionEvent: the log after it (nothing is written when the record is gone)
logExecutionEvent(d, a, eventType) ==
  IF HasRecord(d)
  THEN logs \cup {[jobId |-> RecordOf(d).jobId, agentId |-> a, eventType |-> eventType]}
  ELSE logs

\* A tracker call that found no row under its (distributionId, agentId): the keyed
\* update throws (record to update not found) and the call rethrows it.
Thrown(operation, d, a) == [operation |-> operation, distributionId |-> d, agentId |-> a]

\* (a track that sets the status and leaves startedAt as it was)
trackAgentExecutionNoStamp(d, a, now) ==
  {IF r.jobDistributionId = d /\ r.agentId = a
   THEN [r EXCEPT !.workStatus = "WORKING"]
   ELSE r : r \in assignments}

\* trackAgentExecution: updateExecutionStatus(WORKING), then startedAt and WORKING again
trackAgentExecution(d, a, now) ==
  {IF r.jobDistributionId = d /\ r.agentId = a
   THEN [r EXCEPT !.workStatus = "WORKING", !.startedAt = now]
   ELSE r : r \in assignments}

\* (a performance update that counts every call in totalJobs and only the
\* successful ones elsewhere)
NewPerfFailuresDropped(a, snap, isSuccess, ms) ==
  LET old == IF snap = {} THEN [totalJobs |-> 0, completedJobs |-> 0, failedJobs |-> 0]
             ELSE CHOOSE p \in snap : TRUE
      completedJobs == IF isSuccess THEN old.completedJobs + 1 ELSE old.completedJobs
  IN [agentId |-> a, totalJobs |-> old.totalJobs + 1, completedJobs |-> completedJobs,
      failedJobs |-> old.failedJobs, avgExecutionTime |-> Ratio(0, 1),
      successRate |-> Ratio(completedJobs, old.totalJobs + 1)]

\* updateAgentPerformance, the row written from the row read (snap is {} or {row})
NewPerf(a, snap, isSuccess, ms) ==
  IF snap = {}
  THEN [agentId |-> a,
        totalJobs |-> 1,
        completedJobs |-> IF isSuccess THEN 1 ELSE 0,
        failedJobs |-> IF isSuccess THEN 0 ELSE 1,
        avgExecutionTime |-> IF ms > 0 /\ isSuccess THEN Ratio(ms, 1) ELSE Ratio(0, 1),
        successRate |-> IF isSuccess THEN Ratio(1, 1) ELSE Ratio(0, 1)]
  ELSE LET currentPerformance == CHOOSE p \in snap : TRUE
           totalJobs == currentPerformance.totalJobs + 1
           completedJobs == IF isSuccess THEN currentPerformance.completedJobs + 1
                            ELSE currentPerformance.completedJobs
           failedJobs == IF ~isSuccess THEN currentPerformance.failedJobs + 1
                         ELSE currentPerformance.failedJobs
           avg == currentPerformance.avgExecutionTime
       IN [agentId |-> a,
           totalJobs |-> totalJobs,
           completedJobs |-> completedJobs,
           failedJobs |-> failedJobs,
           avgExecutionTime |->
             IF ms > 0 /\ isSuccess
             THEN Ratio(avg.n * currentPerformance.completedJobs + ms * avg.d, avg.d * completedJobs)
             ELSE avg,
           successRate |-> Ratio(completedJobs, totalJobs)]

\* The create of a row whose agentId exists violates @unique and is caught (line 488).
PerfWriteFails(a, snap) == snap = {} /\ HasPerf(a)

PerfAfter(a, snap, isSuccess, ms) ==
  IF PerfWriteFails(a, snap) THEN perf
  ELSE {p \in perf : p.agentId # a} \cup {NewPerf(a, snap, isSuccess, ms)}

AgentAfter(a, snap, isSuccess, ms) ==
  IF PerfWriteFails(a, snap) THEN agent
  ELSE LET np == NewPerf(a, snap, isSuccess, ms)
       IN [agent EXCEPT ![a].totalJobsCompleted = np.completedJobs,
                        ![a].successRate = np.successRate]

\* A handleExecutionCompleted / handleExecutionFailed call that has written the
\* status and read the performance row, and has yet to write it.
Handler(d, a, isSuccess, ms, origin) ==
  [distributionId |-> d, agentId |-> a, isSuccess |-> isSuccess, executionTimeMs |-> ms,
   origin |-> origin, snap |-> {p \in perf : p.agentId = a}]

\* ------------------------------------------------- JobDistributorService
\* matchCriteria of createDistributionRecord: `job.maxBudget || undefined`
\* drops a budget of 0 like a NULL one
MatchCriteria(j) ==
  [tags |-> job[j].tags, category |-> job[j].category, skillLevel |-> job[j].skillLevel,
   maxBudget |-> IF job[j].maxBudget > 0 THEN job[j].maxBudget ELSE NoBudget]

\* (a store whose jobId column carries no unique index)
JobIdNotUnique(j) == FALSE

\* jobId @unique of JobDistributionRecord: a second record of the job is refused
JobIdTaken(j) == RecordsOfJob(j) # {}

\* (a createDistributionRecord that does not look the job up first)
CanCreateUnchecked(j, agents) == ~JobIdTaken(j)

\* Whether the transaction of createDistributionRecord commits.
CanCreate(j, agents) == JobExists(j) /\ ~JobIdTaken(j)

\* (a record created without its counts, left at 0)
NewRecordNoCounts(d, j, agents) ==
  [id |-> d, jobId |-> j, matchCriteria |-> MatchCriteria(j),
   totalAgents |-> 0, assignedCount |-> 0, responseCount |-> 0,
   assignedAgentId |-> NoAgent]

NewRecord(d, j, agents) ==
  [id |-> d, jobId |-> j, matchCriteria |-> MatchCriteria(j),
   totalAgents |-> Cardinality(agents), assignedCount |-> Cardinality(agents), responseCount |-> 0,
   assignedAgentId |-> NoAgent]

NewRows(d, agents) ==
  {[jobDistributionId |-> d, agentId |-> a, workStatus |-> "ASSIGNED",
    startedAt |-> NoTime, completedAt |-> NoTime, executionResult |-> Null,
    errorMessage |-> Null, executionTimeMs |-> NoMs] : a \in agents}

\* Array.prototype.sort((a, b) => key(a) - key(b)), which is stable: ascending in
\* the keys, key[i] being that of s[i], and elements of equal keys keep the order
\* they had in s.
StableSort(s, key) ==
  LET p == CHOOSE q \in Perms(DOMAIN s) :
             \A i, k \in DOMAIN s :
               i < k => \/ key[q[i]] < key[q[k]]
                        \/ key[q[i]] = key[q[k]] /\ q[i] < q[k]
  IN [i \in DOMAIN s |-> s[p[i]]]

\* An AgentExecutionResult as getDistributionDetail builds it: a null completedAt
\* or executionTimeMs is undefined there, and an executionTimeMs of 0 too
\* (`assignment.executionTimeMs || undefined`).  resultLength is the length of
\* executionResult, 0 when there is none.
Execution(a, workStatus, completedAt, executionTimeMs, resultLength) ==
  [agentId |-> a, workStatus |-> workStatus, completedAt |-> completedAt,
   executionTimeMs |-> IF executionTimeMs = 0 THEN NoMs ELSE executionTimeMs,
   resultLength |-> resultLength]

\* the map of getDistributionDetail on a stored row of the listing
AsExecution(r) ==
  Execution(r.agentId, r.workStatus, r.completedAt, r.executionTimeMs, r.resultLength)

IsCompleted(execution) == execution.workStatus = "COMPLETED"

\* calculateResultScore in units of 1/ScoreUnit of a point: 100 when COMPLETED,
\* Math.max(0, 50 - ms / 1000 / 60) when executionTimeMs is truthy,
\* Math.min(20, length / 100) when there is a result that is not empty.
calculateResultScore(execution) ==
  (IF execution.workStatus = "COMPLETED" THEN 100 * ScoreUnit ELSE 0)
  + (IF execution.executionTimeMs # NoMs /\ execution.executionTimeMs # 0
     THEN Max(0, 50 * ScoreUnit - execution.executionTimeMs) ELSE 0)
  + (IF execution.resultLength > 0
     THEN Min(20 * ScoreUnit, (execution.resultLength * ScoreUnit) \div 100) ELSE 0)

\* (the default branch of the switch: the first row listed)
selectedAgentUnsorted(strategy, completedAgents) == completedAgents[1]

\* The switch of selectBestAgentAndComplete on a list of COMPLETED rows that is
\* not empty: first_completed sorts by completedAt (0 for a missing one) ascending,
\* best_scored by calculateResultScore descending; the head of the sorted list.
selectedAgent(strategy, completedAgents) ==
  IF strategy = "first_completed"
  THEN StableSort(completedAgents,
                  [i \in DOMAIN completedAgents |-> completedAgents[i].completedAt])[1]
  ELSE StableSort(completedAgents,
                  [i \in DOMAIN completedAgents |->
                     0 - calculateResultScore(completedAgents[i])])[1]

\* selectBestAgentAndComplete, strategy first_completed, on the rows of d: the
\* include of getDistributionDetail has no orderBy, so the rows come in any order
FirstCompleted(d) ==
  LET completed == {Execution(r.agentId, r.workStatus, r.completedAt, r.executionTimeMs, 0) :
                      r \in {x \in RowsOf(d) : x.workStatus = "COMPLETED"}}
  IN IF completed = {} THEN {}
     ELSE {selectedAgent("first_completed", l).agentId : l \in Perms(completed)}

\* The inputs of one choice: the execution times and result lengths tried
ExecutionTimes == {NoMs, 0, 10000, 600000}
ResultLengths == {0, 50, 500}

NoChoice == [state |-> "none", strategy |-> "first_completed", assignedAgents |-> <<>>,
             selected |-> NoAgent]

\* every strategy, and every listing of stored rows of some of the agents, each
\* row COMPLETED or FAILED with any of the times and lengths above
ChoiceInputs ==
  LET Fields == [workStatus : {"COMPLETED", "FAILED"}, completedAt : 1..MaxClock,
                 executionTimeMs : ExecutionTimes, resultLength : ResultLengths]
      Listing(order, f) ==
        [i \in DOMAIN order |->
           [agentId |-> order[i], workStatus |-> f[order[i]].workStatus,
            completedAt |-> f[order[i]].completedAt,
            executionTimeMs |-> f[order[i]].executionTimeMs,
            resultLength |-> f[order[i]].resultLength]]
  IN {[NoChoice EXCEPT !.state = "pending", !.strategy = strategy,
                       !.assignedAgents = Listing(order, f)] :
        strategy \in {"first_completed", "best_scored"},
        order \in UNION {Perms(S) : S \in SUBSET Agents \ {{}}},
        f \in [Agents -> Fields]}

\* A selection that has read its winner and has yet to run its transaction.  One
\* started by the sweep runs while the sweep's transaction is open: timedOut are the
\* agents whose rows that transaction has set to TIMEOUT and not committed.
Selection(d, a, origin) ==
  [distributionId |-> d, agentId |-> a, jobId |-> RecordOf(d).jobId, origin |-> origin,
   timedOut |-> IF origin = "sweep"
                THEN {r.agentId : r \in {x \in RowsOf(d) : x.workStatus \in ActiveStatuses}}
                ELSE {}]

\* (a selection without the early return: with no COMPLETED row it takes any row)
SelectReadAnyRow(d, origin) ==
  IF HasRecord(d) THEN {Selection(d, r.agentId, origin) : r \in RowsOf(d)} ELSE {}

\* The selections selectBestAgentAndComplete(d) may make on the present rows.
SelectRead(d, origin) ==
  IF HasRecord(d) THEN {Selection(d, a, origin) : a \in FirstCompleted(d)} ELSE {}

\* (an updateMany without the workStatus filter)
CancelOthersAnyStatus(d, winner, now) ==
  {IF r.jobDistributionId = d /\ r.agentId # winner
   THEN [r EXCEPT !.workStatus = "CANCELLED", !.completedAt = now,
                  !.errorMessage = "Task completed by another agent"]
   ELSE r : r \in assignments}

\* step 3 of the selection's transaction: the other agents' open rows are cancelled
CancelOthers(d, winner, now) ==
  {IF r.jobDistributionId = d /\ r.agentId # winner /\ r.workStatus \in ActiveStatuses
   THEN [r EXCEPT !.workStatus = "CANCELLED", !.completedAt = now,
                  !.errorMessage = "Task completed by another agent"]
   ELSE r : r \in assignments}

\* step 2 of handleDistributionTimeout: the open rows of the distribution time out
TimeoutOpen(d, now) ==
  {IF r.jobDistributionId = d /\ r.workStatus \in ActiveStatuses
   THEN [r EXCEPT !.workStatus = "TIMEOUT", !.completedAt = now,
                  !.errorMessage = "Task execution timeout"]
   ELSE r : r \in assignments}

\* (a count of the agents whose call has ended, leaving out those at work)
updateResponseCountEnded(d, rows) ==
  LET responseCount == Cardinality({r \in rows : /\ r.jobDistributionId = d
                                                 /\ r.workStatus \in {"COMPLETED", "FAILED"}})
  IN {IF r.id = d THEN [r EXCEPT !.responseCount = responseCount] ELSE r : r \in records}

\* updateResponseCount: the records after it, the rows being `rows`
updateResponseCount(d, rows) ==
  LET responseCount == Cardinality({r \in rows : /\ r.jobDistributionId = d
                                                 /\ r.workStatus \in {"WORKING", "COMPLETED", "FAILED"}})
  IN {IF r.id = d THEN [r EXCEPT !.responseCount = responseCount] ELSE r : r \in records}

\* The pending selections once selectBestAgentAndComplete(d) has read its winner
\* (unchanged when no row is COMPLETED or the record is gone).
SelectStart(d, origin) ==
  IF SelectRead(d, origin) = {} THEN {pendingSel}
  ELSE {pendingSel \cup {sel} : sel \in SelectRead(d, origin)}

\* ------------------------------------------- AgentCommunicationService
\* What one axios.get of <address>/health can meet: an answer with a 2xx status
\* and a body (status "ok", another status, or none), or an error thrown: a
\* status outside 2xx, a timeout, a refused connection.
Probe(threw, status, body) == [threw |-> threw, status |-> status, body |-> body]

ProbeOutcomes ==
  {Probe(FALSE, 200, "ok"), Probe(FALSE, 200, "degraded"), Probe(FALSE, 200, ""),
   Probe(FALSE, 204, "ok"), Probe(TRUE, 500, "ok"), Probe(TRUE, NoStatus, "")}

\* healthCheck(agentAddress): never throws; healthy on a 200 whose body says ok
healthCheck(agentAddress, probe) ==
  IF probe.threw
  THEN [threw |-> FALSE, agentAddress |-> agentAddress, isHealthy |-> FALSE,
        error |-> "Health check failed"]
  ELSE LET isHealthy == probe.status = 200 /\ probe.body = "ok"
       IN [threw |-> FALSE, agentAddress |-> agentAddress, isHealthy |-> isHealthy,
           error |-> IF isHealthy THEN "" ELSE "Unexpected status"]

\* (a batch that gives up at the first agent that is not healthy)
batchHealthCheckFailFast(agentAddresses, probes) ==
  LET checks == [i \in DOMAIN agentAddresses |-> healthCheck(agentAddresses[i], probes[i])]
  IN IF \E i \in DOMAIN checks : ~checks[i].isHealthy
     THEN [threw |-> TRUE, results |-> <<>>]
     ELSE [threw |-> FALSE, results |-> checks]

\* batchHealthCheck: the checks are mapped over the addresses, each with its own
\* catch, and awaited with Promise.all, which keeps the order of the addresses
\* and rejects when one of its promises does.
batchHealthCheck(agentAddresses, probes) ==
  LET healthChecks ==
        [i \in DOMAIN agentAddresses |->
           LET check == healthCheck(agentAddresses[i], probes[i])
           IN IF check.threw
              THEN [threw |-> FALSE, agentAddress |-> agentAddresses[i], isHealthy |-> FALSE,
                    error |-> "Health check failed"]
              ELSE check]
  IN [threw |-> \E i \in DOMAIN healthChecks : healthChecks[i].threw,
      results |-> healthChecks]

AgentAddresses == {"http://a1", "http://a2"}

NoBatch == [state |-> "none", agentAddresses |-> <<>>, probes |-> <<>>,
            outcome |-> [threw |-> FALSE, results |-> <<>>]]

\* every list of up to MaxAddresses addresses, with every course of its probes
BatchInputs ==
  {[NoBatch EXCEPT !.state = "pending", !.agentAddresses = addresses, !.probes = probes] :
     addresses \in UNION {[1..k -> AgentAddresses] : k \in 0..MaxAddresses},
     probes \in UNION {[1..k -> ProbeOutcomes] : k \in 0..MaxAddresses}}

\* What one axios.post to the agent can meet: a 2xx answer, an AxiosError with a
\* code and, when the agent answered, a status, or an error that is no AxiosError
\* (a payload that cannot be serialised).
Met(ok, axios, code, status) == [ok |-> ok, axios |-> axios, code |-> code, status |-> status]

AxiosOutcomes ==
  {Met(TRUE, FALSE, "", 200),
   Met(FALSE, TRUE, "ECONNREFUSED", NoStatus),
   Met(FALSE, TRUE, "ECONNRESET", NoStatus),
   Met(FALSE, TRUE, "ETIMEDOUT", NoStatus),
   Met(FALSE, TRUE, "ECONNABORTED", NoStatus),
   Met(FALSE, TRUE, "ERR_BAD_RESPONSE", 500),
   Met(FALSE, TRUE, "ERR_BAD_RESPONSE", 503),
   Met(FALSE, TRUE, "ERR_BAD_REQUEST", 400),
   Met(FALSE, TRUE, "ERR_BAD_REQUEST", 404),
   Met(FALSE, FALSE, "", NoStatus)}

\* makeAgentApiCall: the post inside try / catch.  Every error, AxiosError or not,
\* is caught and returned as {success: false, error}; nothing is thrown.
makeAgentApiCall(met) == [threw |-> FALSE, success |-> met.ok, error |-> met]

defaultRetryCondition(error) ==
  IF error.axios
  THEN \/ error.code = "ECONNREFUSED"
       \/ error.code = "ECONNRESET"
       \/ error.code = "ETIMEDOUT"
       \/ (error.status # NoStatus /\ error.status >= 500)
  ELSE FALSE

\* executeWithRetry: the loop from `attempt` on, the operation's i-th run ending as
\* runs[i].  A run that returns ends the loop; one that throws is retried unless
\* attempt = maxRetries or the retry condition refuses the error.
RECURSIVE executeWithRetry(_, _, _)
executeWithRetry(runs, attempt, maxRetries) ==
  LET run == runs[attempt + 1]
  IN IF ~run.threw
     THEN [attempts |-> attempt + 1, threw |-> FALSE, success |-> run.success]
     ELSE IF attempt = maxRetries \/ ~defaultRetryCondition(run.error)
          THEN [attempts |-> attempt + 1, threw |-> TRUE, success |-> FALSE]
          ELSE executeWithRetry(runs, attempt + 1, maxRetries)

\* callAgentAPI(agentAddress, jobData, retryConfig) with the default retry condition
callAgentAPI(mets, maxRetries) ==
  executeWithRetry([i \in DOMAIN mets |-> makeAgentApiCall(mets[i])], 0, maxRetries)

NoCall == [state |-> "none", maxRetries |-> DefaultMaxRetries, mets |-> <<>>,
           result |-> [attempts |-> 0, threw |-> FALSE, success |-> FALSE]]

\* The invocations under observation: a policy and what each possible attempt meets.
CallInputs ==
  {[NoCall EXCEPT !.state = "pending", !.maxRetries = n, !.mets = mets] :
     n \in 0..MaxRetriesInput, mets \in [1..(MaxRetriesInput + 1) -> AxiosOutcomes]}

\* ------------------------------------------------------------------ state
IdleWorker ==
  [pc |-> "idle", mode |-> "", jobId |-> "", agents |-> {}, distId |-> 0,
   call |-> [a \in Agents |-> "none"]]

JobRow(tags, skillLevel, maxBudget) ==
  [status |-> "OPEN", tags |-> tags, category |-> "c1", skillLevel |-> skillLevel,
   maxBudget |-> maxBudget]

AgentRow(tags, classification, reputation, isFree, price) ==
  [isActive |-> TRUE, autoAcceptJobs |-> TRUE, tags |-> tags,
   agentClassification |-> classification, reputation |-> reputation,
   isFree |-> isFree, price |-> price,
   successRate |-> Ratio(0, 1), totalJobsCompleted |-> 0]

\* Two open jobs and two registered agents; nothing distributed yet.
InitStore ==
  /\ job = [j \in Jobs |-> IF j = "j1" THEN JobRow({"t1"}, "beginner", NoBudget)
                           ELSE JobRow({"t2"}, "intermediate", 50)]
  /\ agent = [a \in Agents |-> IF a = "a1" THEN AgentRow({"t1"}, "intermediate", 40, TRUE, 0)
                               ELSE AgentRow({"t1", "t2"}, "expert", 45, FALSE, 30)]
  /\ records = {}
  /\ assignments = {}
  /\ perf = {}
  /\ logs = {}
  /\ clock = 1
  /\ worker = [w \in Workers |-> IdleWorker]
  /\ handlers = {}
  /\ pendingSel = {}
  /\ cbCount = 0
  /\ noMatch = {}
  /\ openFailed = {}
  /\ noWinner = {}
  /\ notFound = {}

\* No agent call under observation.
Init == InitStore /\ rpc = NoCall /\ choice = NoChoice /\ health = NoBatch

\* ------------------------------------------------------ QueueService
\* processTask: a queue task for job j.  It is skipped when a distribution record
\* of the job exists or the job is gone; otherwise the job is set to DISTRIBUTED.
ProcessTask(j) ==
  /\ RecordsOfJob(j) = {}
  /\ JobExists(j)
  /\ job' = [job EXCEPT ![j].status = "DISTRIBUTED"]
  /\ UNCHANGED <<notFound, health, rpc, choice, noWinner, agent, records, assignments, perf, logs, clock, worker, handlers,
                 pendingSel, cbCount, noMatch, openFailed>>

\* ------------------------------------- ExecuterService / ExecuterController
\* Tasks are anonymous: a new one takes the first free slot.
FreeSlot(w) == worker[w].pc = "idle" /\ \A v \in Workers : worker[v].pc = "idle" => w <= v

\* (a pass that answers a job without agents by cancelling its whole batch)
MatchJobCancelBatch(w, j) ==
  /\ FreeSlot(w)
  /\ job[j].status = "DISTRIBUTED"
  /\ RecordsOfJob(j) = {}
  /\ \E selectedAgents \in SelectedAgents(j, MaxAgentsPerJob) :
       IF selectedAgents = {}
       THEN /\ job' = [k \in Jobs |-> IF job[k].status = "DISTRIBUTED"
                                       THEN [job[k] EXCEPT !.status = "CANCELLED"] ELSE job[k]]
            /\ noMatch' = noMatch \cup {j}
            /\ UNCHANGED worker
       ELSE /\ worker' = [worker EXCEPT ![w] = [IdleWorker EXCEPT !.pc = "open", !.mode = "pass",
                                                  !.jobId = j, !.agents = selectedAgents]]
            /\ UNCHANGED <<job, noMatch>>
  /\ UNCHANGED <<notFound, health, rpc, choice, noWinner, agent, records, assignments, perf, logs, clock, handlers,
                 pendingSel, cbCount, openFailed>>

\* processTaskDistribution, for one job of the batch the findMany returned
\* (status DISTRIBUTED, no distribution record): match, rank, cut to the cap.
\* With no agent left the job is cancelled; otherwise the task goes on to open.
\* (The findMany and the match of the job are taken as one step.)
MatchJob(w, j) ==
  /\ FreeSlot(w)
  /\ job[j].status = "DISTRIBUTED"
  /\ RecordsOfJob(j) = {}
  /\ \E selectedAgents \in SelectedAgents(j, MaxAgentsPerJob) :
       IF selectedAgents = {}
       THEN /\ job' = [job EXCEPT ![j].status = "CANCELLED"]
            /\ noMatch' = noMatch \cup {j}
            /\ UNCHANGED worker
       ELSE /\ worker' = [worker EXCEPT ![w] = [IdleWorker EXCEPT !.pc = "open", !.mode = "pass",
                                                  !.jobId = j, !.agents = selectedAgents]]
            /\ UNCHANGED <<job, noMatch>>
  /\ UNCHANGED <<notFound, health, rpc, choice, noWinner, agent, records, assignments, perf, logs, clock, handlers, pendingSel, cbCount,
                 openFailed>>

\* POST jobs/:jobId/distribute up to the match: the job must be DISTRIBUTED; with no
\* agent left the request fails with 404 and the job is left as it is.
DistributeJob(w, j, maxAgents) ==
  /\ FreeSlot(w)
  /\ job[j].status = "DISTRIBUTED"
  /\ \E selectedAgents \in SelectedAgents(j, maxAgents) :
       IF selectedAgents = {}
       THEN /\ noMatch' = noMatch \cup {j}
            /\ UNCHANGED worker
       ELSE /\ worker' = [worker EXCEPT ![w] = [IdleWorker EXCEPT !.pc = "open", !.mode = "manual",
                                                  !.jobId = j, !.agents = selectedAgents]]
            /\ UNCHANGED noMatch
  /\ UNCHANGED <<notFound, health, rpc, choice, noWinner, job, agent, records, assignments, perf, logs, clock, handlers, pendingSel,
                 cbCount, openFailed>>

\* createDistributionRecord(jobId, agents) and what its caller does with a failure.
\* The transaction writes the record, one ASSIGNED row per agent and the job's
\* DISTRIBUTED status, or nothing.  processTaskDistribution answers a failure by
\* setting the job to CANCELLED (an update that itself fails when the job is gone);
\* the distribute endpoint answers it with a 500.
OpenDistribution(w) ==
  LET j == worker[w].jobId
      agents == worker[w].agents
      d == FreshId
  IN /\ worker[w].pc = "open"
     /\ d <= MaxDist
     /\ IF CanCreate(j, agents)
        THEN /\ records' = records \cup {NewRecord(d, j, agents)}
             /\ assignments' = assignments \cup NewRows(d, agents)
             /\ job' = [job EXCEPT ![j].status = "DISTRIBUTED"]
             /\ worker' = [worker EXCEPT ![w].pc = "dispatch", ![w].distId = d,
                             ![w].call = [a \in Agents |-> IF a \in agents THEN "todo" ELSE "none"]]
             /\ UNCHANGED openFailed
        ELSE /\ job' = IF worker[w].mode = "pass" /\ JobExists(j)
                       THEN [job EXCEPT ![j].status = "CANCELLED"]
                       ELSE job
             /\ worker' = [worker EXCEPT ![w] = IdleWorker]
             /\ openFailed' = openFailed \cup {j}
             /\ UNCHANGED <<records, assignments>>
     /\ UNCHANGED <<notFound, health, rpc, choice, noWinner, agent, perf, logs, clock, handlers, pendingSel, cbCount, noMatch>>

\* distributeToAgents when one of its two reads at the start throws (the store
\* fails the query of getDistributionDetail or of job.findUnique): the error is
\* logged and rethrown before any agent is tracked or called.  The catch of
\* processTaskDistribution answers by setting the job to CANCELLED; the distribute
\* endpoint, which does not await the dispatch, only logs.  The record and its
\* rows stay as the open wrote them.
AbortDispatch(w) ==
  LET j == worker[w].jobId
  IN /\ worker[w].pc = "dispatch"
     /\ \A a \in Agents : worker[w].call[a] \in {"none", "todo"}
     /\ job' = IF worker[w].mode = "pass" /\ JobExists(j)
               THEN [job EXCEPT ![j].status = "CANCELLED"]
               ELSE job
     /\ worker' = [worker EXCEPT ![w] = IdleWorker]
     /\ UNCHANGED <<notFound, health, rpc, choice, noWinner, agent, records, assignments, perf,
                    logs, clock, handlers, pendingSel, cbCount, noMatch, openFailed>>

\* distributeToAgents, one agent's task up to the call: trackAgentExecution.  When
\* the row is gone the update throws, the catch's handleExecutionFailed throws too,
\* and the task is settled (rejected).  startedAt takes the clock's last reading.
TrackAgent(w, a) ==
  LET d == worker[w].distId
  IN /\ worker[w].pc = "dispatch"
     /\ worker[w].call[a] = "todo"
     /\ IF HasRow(d, a)
        THEN /\ assignments' = trackAgentExecution(d, a, clock)
             /\ logs' = logExecutionEvent(d, a, "WORKING")
             /\ worker' = [worker EXCEPT ![w].call[a] = "inflight"]
             /\ UNCHANGED notFound
        ELSE /\ worker' = [worker EXCEPT ![w].call[a] = "done"]
             /\ notFound' = notFound \cup {Thrown("trackAgentExecution", d, a)}
             /\ UNCHANGED <<assignments, logs>>
     /\ UNCHANGED <<health, rpc, choice, noWinner, clock, job, agent, records, perf, handlers, pendingSel, cbCount, noMatch, openFailed>>

\* distributeToAgents, one agent's task when callAgentAPI returns: the response is
\* recorded with handleExecutionCompleted or handleExecutionFailed (status written,
\* performance row read).
AgentResponds(w, a, success) ==
  LET d == worker[w].distId
      status == IF success THEN StatusUpdate("COMPLETED", "res", Null, NoMs)
                ELSE StatusUpdate("FAILED", Null, "err", NoMs)
  IN /\ worker[w].pc = "dispatch"
     /\ worker[w].call[a] = "inflight"
     /\ IF HasRow(d, a)
        THEN \E now \in Now :
               /\ assignments' = updateExecutionStatus(d, a, status, now)
               /\ logs' = logExecutionEvent(d, a, status.workStatus)
               /\ clock' = now
               /\ handlers' = handlers \cup {Handler(d, a, success, NoMs, w)}
               /\ worker' = [worker EXCEPT ![w].call[a] = "handling"]
        ELSE /\ worker' = [worker EXCEPT ![w].call[a] = "done"]
             /\ UNCHANGED <<assignments, logs, clock, handlers>>
     /\ UNCHANGED <<notFound, health, rpc, choice, noWinner, job, agent, records, perf, pendingSel, cbCount, noMatch, openFailed>>

\* The second half of updateAgentPerformance: the row computed from the row read is
\* written and mirrored onto the agent.  A dispatch task is then settled; a result
\* submission goes on to isDistributionCompleted and, when some row is COMPLETED,
\* starts selectBestAgentAndComplete (first_completed), which reads its winner.
WritePerformance(h) ==
  LET a == h.agentId
      d == h.distributionId
  IN /\ h \in handlers
     /\ handlers' = handlers \ {h}
     /\ perf' = PerfAfter(a, h.snap, h.isSuccess, h.executionTimeMs)
     /\ agent' = AgentAfter(a, h.snap, h.isSuccess, h.executionTimeMs)
     /\ IF h.origin \in Workers
        THEN /\ worker' = [worker EXCEPT ![h.origin].call[a] = "done"]
             /\ UNCHANGED pendingSel
        ELSE /\ pendingSel' \in SelectStart(d, "result")
             /\ UNCHANGED worker
     /\ UNCHANGED <<notFound, health, rpc, choice, noWinner, job, records, assignments, logs, clock, cbCount, noMatch, openFailed>>

\* (a dispatch that stops waiting when the first call has settled)
FinishDispatchEarly(w) ==
  LET j == worker[w].jobId
  IN /\ worker[w].pc = "dispatch"
     /\ \E a \in Agents : worker[w].call[a] = "done"
     /\ job' = IF JobExists(j) THEN [job EXCEPT ![j].status = "IN_PROGRESS"] ELSE job
     /\ worker' = [worker EXCEPT ![w] = IdleWorker]
     /\ UNCHANGED <<notFound, health, rpc, choice, noWinner, agent, records, assignments, perf, logs, clock, handlers, pendingSel,
                    cbCount, noMatch, openFailed>>

\* distributeToAgents after Promise.allSettled: the job is set to IN_PROGRESS.  When
\* the job is gone the update throws, and so does the CANCELLED update of the catch
\* in processTaskDistribution.
FinishDispatch(w) ==
  LET j == worker[w].jobId
  IN /\ worker[w].pc = "dispatch"
     /\ \A a \in Agents : worker[w].call[a] \in {"none", "done"}
     /\ job' = IF JobExists(j) THEN [job EXCEPT ![j].status = "IN_PROGRESS"] ELSE job
     /\ worker' = [worker EXCEPT ![w] = IdleWorker]
     /\ UNCHANGED <<notFound, health, rpc, choice, noWinner, agent, records, assignments, perf, logs, clock, handlers, pendingSel,
                    cbCount, noMatch, openFailed>>

\* PUT agents/:agentId/status: updateExecutionStatus with the request's fields, then
\* updateResponseCount.  A request for a row that does not exist fails with a 500.
UpdateAgentExecutionStatus(d, a, request) ==
  /\ cbCount < MaxCallbacks
  /\ HasRow(d, a)
  /\ \E now \in Now :
       /\ assignments' = updateExecutionStatus(d, a, request, now)
       /\ clock' = IF request.workStatus \in TerminalStatuses THEN now ELSE clock
  /\ logs' = logExecutionEvent(d, a, request.workStatus)
  /\ records' = updateResponseCount(d, assignments')
  /\ cbCount' = cbCount + 1
  /\ UNCHANGED <<notFound, health, rpc, choice, noWinner, job, agent, perf, worker, handlers, pendingSel, noMatch, openFailed>>

\* PUT agents/:agentId/status for a (distributionId, agentId) without a row: the
\* update of updateExecutionStatus throws before the log entry is written,
\* updateResponseCount is not reached and the request is answered with a 500.
UpdateAgentExecutionStatusNotFound(d, a, request) ==
  /\ cbCount < MaxCallbacks
  /\ ~HasRow(d, a)
  /\ notFound' = notFound \cup {Thrown("updateExecutionStatus", d, a)}
  /\ cbCount' = cbCount + 1
  /\ UNCHANGED <<health, rpc, choice, noWinner, job, agent, records, assignments, perf, logs,
                 clock, worker, handlers, pendingSel, noMatch, openFailed>>

\* (a status endpoint whose transition is undone when the log cannot be written)
UpdateAgentExecutionStatusAborted(d, a, request) ==
  /\ cbCount < MaxCallbacks
  /\ HasRow(d, a)
  /\ cbCount' = cbCount + 1
  /\ UNCHANGED <<notFound, health, rpc, choice, noWinner, job, agent, records, assignments, perf, logs, clock,
                 worker, handlers, pendingSel, noMatch, openFailed>>

\* PUT agents/:agentId/status when executionLog.create fails (the store refuses
\* the write): logExecutionEvent catches the error and warns, and
\* updateExecutionStatus goes on as if the entry had been written.
UpdateAgentExecutionStatusUnlogged(d, a, request) ==
  /\ cbCount < MaxCallbacks
  /\ HasRow(d, a)
  /\ \E now \in Now :
       /\ assignments' = updateExecutionStatus(d, a, request, now)
       /\ clock' = IF request.workStatus \in TerminalStatuses THEN now ELSE clock
  /\ records' = updateResponseCount(d, assignments')
  /\ cbCount' = cbCount + 1
  /\ UNCHANGED <<notFound, health, rpc, choice, noWinner, job, agent, perf, logs, worker, handlers, pendingSel,
                 noMatch, openFailed>>

\* POST agents/:agentId/result up to the performance read: handleExecutionCompleted
\* with the submitted result and execution time.
SubmitExecutionResult(d, a, ms) ==
  /\ cbCount < MaxCallbacks
  /\ HasRow(d, a)
  /\ \E now \in Now :
       /\ assignments' = updateExecutionStatus(d, a, StatusUpdate("COMPLETED", "res", Null, ms), now)
       /\ clock' = now
  /\ logs' = logExecutionEvent(d, a, "COMPLETED")
  /\ handlers' = handlers \cup {Handler(d, a, TRUE, ms, NoOrigin)}
  /\ cbCount' = cbCount + 1
  /\ UNCHANGED <<notFound, health, rpc, choice, noWinner, job, agent, records, perf, worker, pendingSel, noMatch, openFailed>>

\* selectBestAgentAndComplete(d, 'first_completed') called on its own, up to the
\* choice of selectedAgent.  With no record it throws, with no COMPLETED row it
\* warns and returns; neither writes anything.
SelectBestAgentAndComplete(d) ==
  /\ pendingSel' \in SelectStart(d, "call")
  /\ noWinner' = IF HasRecord(d) /\ SelectRead(d, "call") = {} THEN noWinner \cup {d}
                 ELSE noWinner
  /\ UNCHANGED <<notFound, health, rpc, choice, job, agent, records, assignments, perf, logs, clock, worker,
                 handlers, cbCount, noMatch, openFailed>>

\* (the three writes without $transaction, the job update failing after the first)
CompleteSelectionNoTx(sel) ==
  /\ sel \in pendingSel
  /\ pendingSel' = pendingSel \ {sel}
  /\ records' = {IF r.id = sel.distributionId THEN [r EXCEPT !.assignedAgentId = sel.agentId]
                 ELSE r : r \in records}
  /\ UNCHANGED <<notFound, health, rpc, choice, noWinner, job, assignments, clock, agent, perf, logs, worker,
                 handlers, cbCount, noMatch, openFailed>>

\* The transaction of selectBestAgentAndComplete: the winner read earlier is
\* recorded, the job is set to COMPLETED, the other agents' open rows are
\* cancelled.  With the record gone the first update throws and nothing is written.
CompleteSelection(sel) ==
  LET d == sel.distributionId
      cancels == \E r \in RowsOf(d) : r.agentId # sel.agentId /\ r.workStatus \in ActiveStatuses
  IN /\ sel \in pendingSel
     /\ pendingSel' = pendingSel \ {sel}
     /\ IF HasRecord(d)
        THEN /\ records' = {IF r.id = d THEN [r EXCEPT !.assignedAgentId = sel.agentId] ELSE r :
                              r \in records}
             /\ job' = [job EXCEPT ![sel.jobId].status = "COMPLETED"]
             /\ \E now \in Now :
                  /\ assignments' = CancelOthers(d, sel.agentId, now)
                  /\ clock' = IF cancels THEN now ELSE clock
        ELSE UNCHANGED <<records, job, assignments, clock>>
     /\ UNCHANGED <<notFound, health, rpc, choice, noWinner, agent, perf, logs, worker, handlers, cbCount, noMatch, openFailed>>

\* handleDistributionTimeout(d).  With no COMPLETED row its transaction times the
\* open rows out and sets the job to EXPIRED.  With a COMPLETED row it calls
\* selectBestAgentAndComplete on this.prisma, that is outside its own transaction
\* tx: the selection reads the committed rows, and its updateMany waits for the
\* rows the still open tx has written until tx expires and is rolled back.  The
\* TIMEOUT writes are therefore never committed in that case, and what remains of
\* the sweep is the selection it started.
HandleDistributionTimeout(d) ==
  LET hasCompleted == \E r \in RowsOf(d) : r.workStatus = "COMPLETED"
      hasOpen == \E r \in RowsOf(d) : r.workStatus \in ActiveStatuses
  IN /\ HasRecord(d)
     /\ IF hasCompleted
        THEN /\ pendingSel' \in SelectStart(d, "sweep")
             /\ UNCHANGED <<assignments, job, clock>>
        ELSE /\ \E now \in Now :
                  /\ assignments' = TimeoutOpen(d, now)
                  /\ clock' = IF hasOpen THEN now ELSE clock
             /\ job' = [job EXCEPT ![RecordOf(d).jobId].status = "EXPIRED"]
             /\ UNCHANGED pendingSel
     /\ UNCHANGED <<notFound, health, rpc, choice, noWinner, agent, records, perf, logs, worker, handlers, cbCount, noMatch, openFailed>>

\* The owner of the jobs deletes one: onDelete: Cascade removes its distribution
\* record and that record's rows.
DeleteJob(j) ==
  /\ JobExists(j)
  /\ job' = [job EXCEPT ![j].status = "ABSENT"]
  /\ records' = {r \in records : r.jobId # j}
  /\ assignments' = {r \in assignments : \E x \in records' : x.id = r.jobDistributionId}
  /\ UNCHANGED <<notFound, health, rpc, choice, noWinner, agent, perf, logs, clock, worker, handlers, pendingSel, cbCount, noMatch, openFailed>>

\* callAgentAPI, from the call to its return or throw.
CallAgentAPI ==
  /\ rpc.state = "pending"
  /\ rpc' = [rpc EXCEPT !.state = "settled", !.result = callAgentAPI(rpc.mets, rpc.maxRetries)]
  /\ UNCHANGED <<notFound, health, choice, noWinner, job, agent, records, assignments, perf, logs, clock, worker, handlers,
                 pendingSel, cbCount, noMatch, openFailed>>

\* batchHealthCheck, from the call to its return or throw.
BatchHealthCheck ==
  /\ health.state = "pending"
  /\ health' = [health EXCEPT !.state = "settled",
                              !.outcome = batchHealthCheck(health.agentAddresses, health.probes)]
  /\ UNCHANGED <<notFound, rpc, choice, noWinner, job, agent, records, assignments, perf, logs, clock,
                 worker, handlers, pendingSel, cbCount, noMatch, openFailed>>

\* selectBestAgentAndComplete from the filter of the rows read to the choice of
\* selectedAgent; with no COMPLETED row it returns before choosing.
SelectAgent ==
  /\ choice.state = "pending"
  /\ LET agentExecutions == [i \in DOMAIN choice.assignedAgents |->
                               AsExecution(choice.assignedAgents[i])]
         completedAgents == SelectSeq(agentExecutions, IsCompleted)
     IN choice' = [choice EXCEPT
                     !.state = "settled",
                     !.selected = IF completedAgents = <<>> THEN NoAgent
                                  ELSE selectedAgent(choice.strategy, completedAgents).agentId]
  /\ UNCHANGED <<notFound, health, rpc, noWinner, job, agent, records, assignments, perf, logs, clock, worker,
                 handlers, pendingSel, cbCount, noMatch, openFailed>>

\* ------------------------------------------------------------ requests
DistIds == 1..MaxDist
ExecTimes == {0, 7}
ManualMaxAgents == {1, 3}

\* The bodies agents send to the status endpoint.
StatusRequests ==
  {StatusUpdate("WORKING", Null, Null, NoMs),
   StatusUpdate("COMPLETED", "res", Null, NoMs),
   StatusUpdate("FAILED", Null, "err", NoMs),
   StatusUpdate("ASSIGNED", Null, Null, NoMs)}

Next ==
  \/ \E j \in Jobs : ProcessTask(j)
  \/ \E w \in Workers, j \in Jobs : MatchJob(w, j)
  \/ \E w \in Workers, j \in Jobs, n \in ManualMaxAgents : DistributeJob(w, j, n)
  \/ \E w \in Workers : OpenDistribution(w)
  \/ \E w \in Workers, a \in Agents : TrackAgent(w, a)
  \/ \E w \in Workers, a \in Agents, success \in BOOLEAN : AgentResponds(w, a, success)
  \/ \E h \in handlers : WritePerformance(h)
  \/ \E w \in Workers : FinishDispatch(w)
  \/ \E d \in DistIds, a \in Agents, request \in StatusRequests : UpdateAgentExecutionStatus(d, a, request)
  \/ \E d \in DistIds, a \in Agents, ms \in ExecTimes : SubmitExecutionResult(d, a, ms)
  \/ \E sel \in pendingSel : CompleteSelection(sel)
  \/ \E d \in DistIds : HandleDistributionTimeout(d)
  \/ CallAgentAPI
  \/ BatchHealthCheck
  \/ SelectAgent
  \/ \E d \in DistIds, a \in Agents, request \in StatusRequests :
       UpdateAgentExecutionStatusUnlogged(d, a, request)
  \/ \E d \in DistIds : SelectBestAgentAndComplete(d)
  \/ \E d \in DistIds, a \in Agents, request \in StatusRequests :
       UpdateAgentExecutionStatusNotFound(d, a, request)
  \/ \E w \in Workers : AbortDispatch(w)

Spec == Init /\ [][Next]_vars

\* ------------------------------------------------- focused specifications
\* The whole system is Spec; the properties are checked under specifications that
\* keep the handlers a property is about.

FirstWorker == CHOOSE w \in Workers : \A v \in Workers : w <= v

\* One job distributed at a time (passes whose batch is a single job, as with the
\* scheduled maxTasks: 1), the agents' responses, winner selection and the sweep.
NextDispatch ==
  \/ \E j \in Jobs : ProcessTask(j)
  \/ \E j \in Jobs : MatchJob(FirstWorker, j)
  \/ OpenDistribution(FirstWorker)
  \/ \E a \in Agents : TrackAgent(FirstWorker, a)
  \/ \E a \in Agents, success \in BOOLEAN : AgentResponds(FirstWorker, a, success)
  \/ \E h \in handlers : WritePerformance(h)
  \/ FinishDispatch(FirstWorker)
  \/ \E sel \in pendingSel : CompleteSelection(sel)
  \/ \E d \in DistIds : HandleDistributionTimeout(d)

SpecDispatch == Init /\ [][NextDispatch]_vars

\* The job that both agents match
SharedJob == CHOOSE j \in Jobs : \A a \in Agents : job[j].tags \cap agent[a].tags # {}

\* The distribution of that job, with selectBestAgentAndComplete called at any
\* moment and jobs deleted under it.
NextWinner ==
  \/ ProcessTask(SharedJob)
  \/ MatchJob(FirstWorker, SharedJob)
  \/ OpenDistribution(FirstWorker)
  \/ \E a \in Agents : TrackAgent(FirstWorker, a)
  \/ \E a \in Agents, success \in BOOLEAN : AgentResponds(FirstWorker, a, success)
  \/ \E h \in handlers : WritePerformance(h)
  \/ FinishDispatch(FirstWorker)
  \/ \E d \in DistIds : SelectBestAgentAndComplete(d)
  \/ \E sel \in pendingSel : CompleteSelection(sel)
  \/ \E j \in Jobs : DeleteJob(j)

SpecWinner == Init /\ [][NextWinner]_vars

\* The distribution of that job with the agents' callbacks: the status and result
\* endpoints are called while the dispatch runs and after it.
NextTrack ==
  \/ ProcessTask(SharedJob)
  \/ MatchJob(FirstWorker, SharedJob)
  \/ OpenDistribution(FirstWorker)
  \/ \E a \in Agents : TrackAgent(FirstWorker, a)
  \/ \E a \in Agents, success \in BOOLEAN : AgentResponds(FirstWorker, a, success)
  \/ \E h \in handlers : WritePerformance(h)
  \/ FinishDispatch(FirstWorker)
  \/ \E d \in DistIds, a \in Agents, request \in StatusRequests :
       UpdateAgentExecutionStatus(d, a, request)
  \/ \E d \in DistIds, a \in Agents, request \in StatusRequests :
       UpdateAgentExecutionStatusUnlogged(d, a, request)
  \/ \E d \in DistIds, a \in Agents, ms \in ExecTimes : SubmitExecutionResult(d, a, ms)
  \/ \E sel \in pendingSel : CompleteSelection(sel)

SpecTrack == Init /\ [][NextTrack]_vars

\* The distribution of that job while the job is deleted under it, with the
\* status endpoint called for rows that exist and for rows that do not.
NextAbsent ==
  \/ ProcessTask(SharedJob)
  \/ MatchJob(FirstWorker, SharedJob)
  \/ OpenDistribution(FirstWorker)
  \/ \E a \in Agents : TrackAgent(FirstWorker, a)
  \/ \E a \in Agents, success \in BOOLEAN : AgentResponds(FirstWorker, a, success)
  \/ \E h \in handlers : WritePerformance(h)
  \/ FinishDispatch(FirstWorker)
  \/ \E d \in DistIds, a \in Agents, request \in StatusRequests :
       UpdateAgentExecutionStatus(d, a, request)
  \/ \E d \in DistIds, a \in Agents, request \in StatusRequests :
       UpdateAgentExecutionStatusNotFound(d, a, request)
  \/ DeleteJob(SharedJob)

SpecAbsent == Init /\ [][NextAbsent]_vars

\* Jobs of one batch, or of overlapping passes, distributed at the same time.
NextOrch ==
  \/ \E j \in Jobs : ProcessTask(j)
  \/ \E w \in Workers, j \in Jobs : MatchJob(w, j)
  \/ \E w \in Workers : OpenDistribution(w)
  \/ \E w \in Workers, a \in Agents : TrackAgent(w, a)
  \/ \E w \in Workers, a \in Agents, success \in BOOLEAN : AgentResponds(w, a, success)
  \/ \E h \in handlers : WritePerformance(h)
  \/ \E w \in Workers : FinishDispatch(w)

SpecOrch == Init /\ [][NextOrch]_vars

\* Opening: the passes and the distribute endpoint race for the same jobs while
\* jobs are deleted under them.
NextOpen ==
  \/ \E j \in Jobs : ProcessTask(j)
  \/ \E w \in Workers, j \in Jobs : MatchJob(w, j)
  \/ \E w \in Workers, j \in Jobs, n \in ManualMaxAgents : DistributeJob(w, j, n)
  \/ \E w \in Workers : OpenDistribution(w)
  \/ \E w \in Workers, a \in Agents : TrackAgent(w, a)
  \/ \E w \in Workers : FinishDispatch(w)
  \/ \E j \in Jobs : DeleteJob(j)

SpecOpen == Init /\ [][NextOpen]_vars

\* One agent call, for every policy and every course of its attempts.
InitCall == InitStore /\ rpc \in CallInputs /\ choice = NoChoice /\ health = NoBatch

NextCall == CallAgentAPI

SpecCall == InitCall /\ [][NextCall]_vars

\* The matcher on every job and agent of a small catalogue: the first job with or
\* without tags, at each skill level (one of them not on the scale) and with no
\* budget, a budget of 0 and a budget of 50; the first agent active or not,
\* accepting or not, sharing the job's tag or not, at each classification, free
\* or priced below or above the budget; the second agent an expert or off the
\* scale, its reputation below or above the cap of 5.0.
FirstJob == "j1"

JobCatalogue ==
  {JobRow(tags, skillLevel, maxBudget) :
     tags \in {{}, {"t1"}, {"t1", "t2"}},
     skillLevel \in {"beginner", "intermediate", "advanced", "custom"},
     maxBudget \in {NoBudget, 0, 50}}

FirstAgentCatalogue ==
  {[AgentRow(tags, classification, 50, pricing.isFree, pricing.price)
      EXCEPT !.isActive = on.isActive, !.autoAcceptJobs = on.autoAcceptJobs] :
     tags \in {{"t1"}, {"t3"}},
     classification \in {"beginner", "intermediate", "advanced", "expert"},
     pricing \in {[isFree |-> TRUE, price |-> 0], [isFree |-> FALSE, price |-> 30],
                  [isFree |-> FALSE, price |-> 80]},
     on \in {[isActive |-> TRUE, autoAcceptJobs |-> TRUE],
             [isActive |-> FALSE, autoAcceptJobs |-> TRUE],
             [isActive |-> TRUE, autoAcceptJobs |-> FALSE]}}

SecondAgentCatalogue ==
  {AgentRow({"t1", "t2"}, classification, reputation, FALSE, 30) :
     classification \in {"expert", "custom"}, reputation \in {45, 60}}

InitMatch ==
  /\ \E row \in JobCatalogue :
       job = [j \in Jobs |-> IF j = FirstJob THEN row ELSE JobRow({"t2"}, "intermediate", 50)]
  /\ \E first \in FirstAgentCatalogue, second \in SecondAgentCatalogue :
       agent = [a \in Agents |-> IF a = "a1" THEN first ELSE second]
  /\ records = {}
  /\ assignments = {}
  /\ perf = {}
  /\ logs = {}
  /\ clock = 1
  /\ worker = [w \in Workers |-> IdleWorker]
  /\ handlers = {}
  /\ pendingSel = {}
  /\ cbCount = 0
  /\ noMatch = {}
  /\ openFailed = {}
  /\ noWinner = {}
  /\ notFound = {}
  /\ rpc = NoCall
  /\ choice = NoChoice
  /\ health = NoBatch

\* Matching and opening only: passes and the distribute endpoint, for the job of
\* the catalogue (a second match of it finds the agents of the first busy).
NextMatch ==
  \/ ProcessTask(FirstJob)
  \/ \E w \in Workers : MatchJob(w, FirstJob)
  \/ \E w \in Workers, n \in ManualMaxAgents : DistributeJob(w, FirstJob, n)
  \/ \E w \in Workers : OpenDistribution(w)

SpecMatch == InitMatch /\ [][NextMatch]_vars

\* One batch health check, for every list of addresses and every course of probes.
InitHealth ==
  /\ InitStore /\ rpc = NoCall /\ choice = NoChoice
  /\ health \in {b \in BatchInputs : Len(b.agentAddresses) = Len(b.probes)}

NextHealth == BatchHealthCheck

SpecHealth == InitHealth /\ [][NextHealth]_vars

\* One choice of a winner, for both strategies and every listing of the rows.
InitSelect == InitStore /\ rpc = NoCall /\ choice \in ChoiceInputs /\ health = NoBatch

NextSelect == SelectAgent

SpecSelect == InitSelect /\ [][NextSelect]_vars

\* What runs without anyone asking: a pass, once triggered, goes through its
\* steps; an agent's call returns or times out (callAgentAPI, timeout 30 s); a
\* selection that has read its winner runs its transaction.  Nothing in the
\* program calls handleDistributionTimeout, so the sweep is never bound to run.
NextLoop ==
  \/ \E j \in Jobs : ProcessTask(j)
  \/ \E j \in Jobs : MatchJob(FirstWorker, j)
  \/ OpenDistribution(FirstWorker)
  \/ \E a \in Agents : TrackAgent(FirstWorker, a)
  \/ \E a \in Agents, success \in BOOLEAN : AgentResponds(FirstWorker, a, success)
  \/ \E h \in handlers : WritePerformance(h)
  \/ FinishDispatch(FirstWorker)
  \/ \E sel \in pendingSel : CompleteSelection(sel)

NextLive == NextLoop \/ \E d \in DistIds : HandleDistributionTimeout(d)

SpecLive == Init /\ [][NextLive]_vars /\ WF_vars(NextLoop)

\* The passes over both jobs, one at a time, with a dispatch that may abort at
\* its start.  Every step of a pass that is due is taken: a matched job is
\* opened, each agent of a dispatch is tracked and its call returns or times out,
\* the performance row is written, the dispatch finishes, a selection that has
\* read its winner commits.  The abort is a fault of the store and the sweep has
\* no caller: neither is bound to happen.
NextAbort ==
  \/ \E j \in Jobs : ProcessTask(j)
  \/ \E j \in Jobs : MatchJob(FirstWorker, j)
  \/ OpenDistribution(FirstWorker)
  \/ AbortDispatch(FirstWorker)
  \/ \E a \in Agents : TrackAgent(FirstWorker, a)
  \/ \E a \in Agents, success \in BOOLEAN : AgentResponds(FirstWorker, a, success)
  \/ \E h \in handlers : WritePerformance(h)
  \/ FinishDispatch(FirstWorker)
  \/ \E sel \in pendingSel : CompleteSelection(sel)
  \/ \E d \in DistIds : HandleDistributionTimeout(d)

FairAbort ==
  /\ WF_vars(\E j \in Jobs : MatchJob(FirstWorker, j))
  /\ WF_vars(OpenDistribution(FirstWorker))
  /\ \A a \in Agents : WF_vars(TrackAgent(FirstWorker, a))
  /\ \A a \in Agents : WF_vars(\E success \in BOOLEAN : AgentResponds(FirstWorker, a, success))
  /\ WF_vars(\E h \in handlers : WritePerformance(h))
  /\ WF_vars(FinishDispatch(FirstWorker))
  /\ WF_vars(\E sel \in pendingSel : CompleteSelection(sel))

SpecAbort == Init /\ [][NextAbort]_vars /\ FairAbort

\* ------------------------------------------------------------- properties

\* C1: once an assignment is in a terminal status (COMPLETED, FAILED, CANCELLED,
\* TIMEOUT) no step changes its workStatus, executionResult, errorMessage or
\* completedAt; a response that arrives after the row was cancelled is a no-op.
C1_TerminalAssignmentImmutable ==
  [][\A r \in assignments :
       r.workStatus \in TerminalStatuses =>
         \E s \in assignments' :
            /\ s.jobDistributionId = r.jobDistributionId
            /\ s.agentId = r.agentId
            /\ s.workStatus = r.workStatus
            /\ s.executionResult = r.executionResult
            /\ s.errorMessage = r.errorMessage
            /\ s.completedAt = r.completedAt]_vars

\* C1, the case the claim singles out: a row cancelled by a winner selection while
\* its agent's call was in flight
C1_CancelledWhileInFlight ==
  \E w \in Workers, a \in Agents :
     /\ worker[w].pc = "dispatch"
     /\ worker[w].call[a] = "inflight"
     /\ HasRow(worker[w].distId, a)
     /\ Row(worker[w].distId, a).workStatus = "CANCELLED"

\* C2: once a job is COMPLETED, CANCELLED or EXPIRED its status never changes.
C2_JobTerminalIsFinal ==
  [][\A j \in Jobs :
       job[j].status \in JobTerminal => job'[j].status = job[j].status]_vars

\* C3: once a winning agent is recorded on a distribution record it is never
\* replaced by a different agent.
C3_WinnerNeverReplaced ==
  [][\A r \in records :
       r.assignedAgentId # NoAgent =>
         \A s \in records' : s.id = r.id => s.assignedAgentId = r.assignedAgentId]_vars

\* C4: when the N completed/failed calls made for an agent, one per distribution,
\* have all finished, the agent's performance row has totalJobs = N and
\* successRate = completedJobs / N.
C4_PerformanceCountsEveryCall ==
  \A a \in Agents :
     LET settled == {r \in assignments : r.agentId = a /\ r.workStatus \in {"COMPLETED", "FAILED"}}
         N == Cardinality(settled)
     IN (N > 0 /\ \A h \in handlers : h.agentId # a) =>
          /\ HasPerf(a)
          /\ PerfOf(a).totalJobs = N
          /\ PerfOf(a).successRate = Ratio(PerfOf(a).completedJobs, N)

\* C5: no agent holds two WORKING assignments at the same time.
C5_OneWorkingAssignmentPerAgent ==
  \A a \in Agents :
     Cardinality({r \in assignments : r.agentId = a /\ r.workStatus = "WORKING"}) <= 1

\* C6: at most one distribution record exists per job in every reachable state.
C6_OneRecordPerJob ==
  \A j \in Jobs : Cardinality(RecordsOfJob(j)) <= 1

\* C6: a second open of a job that exists and has its record was attempted, and
\* was refused
C6_SecondOpenRefused ==
  \E j \in openFailed :
     /\ JobExists(j)
     /\ Cardinality(RecordsOfJob(j)) = 1

\* C7: opening is all-or-nothing.  An open either commits the record, one ASSIGNED
\* row per agent and the job's DISTRIBUTED status, or writes no record and no row
\* (always so when the job is gone); and in every state each record has its
\* totalAgents >= 1 rows and each row has its record.
C7_OpenAllOrNothing ==
  /\ [](/\ \A r \in records : RowsOf(r.id) # {} /\ Cardinality(RowsOf(r.id)) = r.totalAgents
        /\ \A x \in assignments : HasRecord(x.jobDistributionId))
  /\ [][\A w \in Workers :
          OpenDistribution(w) =>
            LET j == worker[w].jobId
                d == FreshId
            IN \/ /\ JobExists(j)
                  /\ records' \ records = {NewRecord(d, j, worker[w].agents)}
                  /\ records \subseteq records'
                  /\ assignments' \ assignments =
                       {x \in assignments' : x.jobDistributionId = d}
                  /\ {x.agentId : x \in assignments' \ assignments} = worker[w].agents
                  /\ \A x \in assignments' \ assignments : x.workStatus = "ASSIGNED"
                  /\ assignments \subseteq assignments'
                  /\ job'[j].status = "DISTRIBUTED"
               \/ /\ records' = records
                  /\ assignments' = assignments
                  /\ job' = job \/ (JobExists(j) /\ job' = [job EXCEPT ![j].status = "CANCELLED"])]_vars

\* C7: one open has committed (record, two ASSIGNED rows, DISTRIBUTED) and the open
\* of a job that was gone has failed, leaving no record of it
C7_OpenCommittedAndRefused ==
  \E j, k \in Jobs :
     /\ k \in openFailed
     /\ ~JobExists(k)
     /\ RecordsOfJob(k) = {}
     /\ job[j].status = "DISTRIBUTED"
     /\ \E r \in RecordsOfJob(j) :
          /\ r.totalAgents = 2
          /\ \A x \in RowsOf(r.id) : x.workStatus = "ASSIGNED"

\* C8: a job for which a match returned no agent is CANCELLED, and no distribution
\* record and no assignment exists for it.
C8_ZeroMatchCancelledNoRecord ==
  \A j \in noMatch :
     /\ job[j].status = "CANCELLED"
     /\ RecordsOfJob(j) = {}

\* C9: the selection's transaction cancels every other ASSIGNED or WORKING row of
\* its distribution and leaves the winner's row, the rows already terminal and the
\* rows of other distributions as they are.
C9_SelectionFrame ==
  [][\A sel \in pendingSel :
       (CompleteSelection(sel) /\ HasRecord(sel.distributionId)) =>
         /\ \A r \in assignments :
              IF /\ r.jobDistributionId = sel.distributionId
                 /\ r.agentId # sel.agentId
                 /\ r.workStatus \in ActiveStatuses
              THEN \E s \in assignments' :
                      /\ s.jobDistributionId = r.jobDistributionId
                      /\ s.agentId = r.agentId
                      /\ s.workStatus = "CANCELLED"
              ELSE r \in assignments'
         /\ Cardinality(assignments') = Cardinality(assignments)]_vars

\* C9: a selection has cancelled an open row, next to a terminal row of its own
\* distribution and to rows of another distribution
C9_SelectionCancelledOthers ==
  \E r \in assignments :
     /\ r.workStatus = "CANCELLED"
     /\ r.errorMessage = "Task completed by another agent"
     /\ \E x \in assignments : x.jobDistributionId # r.jobDistributionId
     /\ \E r2 \in records : r2.id = r.jobDistributionId /\ r2.assignedAgentId # NoAgent

\* C10: when the sweep has run on a distribution none of its rows is ASSIGNED or
\* WORKING and every row the sweep found so is TIMEOUT, with completedAt and an
\* error message; with a COMPLETED row the sweep ends with the first_completed
\* selection (job COMPLETED, winner recorded), otherwise the job is EXPIRED.
C10_SweepOutcome ==
  [][/\ \A d \in DistIds :
          (HandleDistributionTimeout(d) /\ ~\E r \in RowsOf(d) : r.workStatus = "COMPLETED") =>
            /\ \A r \in RowsOf(d) :
                 r.workStatus \in ActiveStatuses =>
                   \E s \in assignments' :
                      /\ s.jobDistributionId = d
                      /\ s.agentId = r.agentId
                      /\ s.workStatus = "TIMEOUT"
                      /\ s.completedAt # NoTime
                      /\ s.errorMessage # Null
            /\ \A s \in assignments' : s.jobDistributionId = d => s.workStatus \notin ActiveStatuses
            /\ job'[RecordOf(d).jobId].status = "EXPIRED"
     /\ \A sel \in pendingSel :
          (sel.origin = "sweep" /\ CompleteSelection(sel) /\ HasRecord(sel.distributionId)) =>
            /\ \A a \in sel.timedOut :
                 \E s \in assignments' :
                    /\ s.jobDistributionId = sel.distributionId
                    /\ s.agentId = a
                    /\ s.workStatus = "TIMEOUT"
                    /\ s.completedAt # NoTime
                    /\ s.errorMessage # Null
            /\ job'[sel.jobId].status = "COMPLETED"
            /\ \E s \in records' : s.id = sel.distributionId /\ s.assignedAgentId # NoAgent]_vars

\* C11: the sweep is idempotent: run on a distribution that is already resolved
\* (job COMPLETED with a winner recorded, or job EXPIRED) it changes no assignment,
\* no distribution record and no job, and neither does the selection it starts.
C11_SweepIdempotent ==
  [][\A d \in DistIds :
       (/\ HasRecord(d)
        /\ LET j == RecordOf(d).jobId
           IN \/ job[j].status = "EXPIRED"
              \/ job[j].status = "COMPLETED" /\ RecordOf(d).assignedAgentId # NoAgent) =>
         /\ HandleDistributionTimeout(d) =>
              /\ assignments' = assignments
              /\ records' = records
              /\ job' = job
         /\ \A sel \in pendingSel :
              (sel.distributionId = d /\ sel.origin = "sweep" /\ CompleteSelection(sel)) =>
                /\ assignments' = assignments
                /\ records' = records
                /\ job' = job]_vars

\* C12: every job for which a distribution has been opened eventually reaches
\* COMPLETED, CANCELLED or EXPIRED, given that the passes keep running and the
\* agents' calls return.
C12_OpenedJobEventuallyResolved ==
  \A j \in Jobs : (RecordsOfJob(j) # {}) ~> (job[j].status \in JobTerminal)

\* C13: the job becomes IN_PROGRESS only when every per-agent call of its dispatch
\* has settled; a failed call leaves the dispatch waiting for the other calls, and
\* once all have settled, whatever their outcomes, the IN_PROGRESS write is due.
C13_InProgressAfterAllSettled ==
  /\ [][/\ \A j \in Jobs :
             (job'[j].status = "IN_PROGRESS" /\ job[j].status # "IN_PROGRESS") =>
               \E w \in Workers :
                  /\ worker[w].pc = "dispatch"
                  /\ worker[w].jobId = j
                  /\ \A a \in worker[w].agents : worker[w].call[a] = "done"
        /\ \A w \in Workers, a \in Agents :
             AgentResponds(w, a, FALSE) =>
               /\ worker'[w].pc = "dispatch"
               /\ \A b \in Agents \ {a} : worker'[w].call[b] = worker[w].call[b]]_vars
  /\ [](\A w \in Workers :
          (/\ worker[w].pc = "dispatch"
           /\ \A a \in worker[w].agents : worker[w].call[a] = "done") =>
            ENABLED FinishDispatch(w))

\* C13: a dispatch of two agents, one of which failed, has ended with the job
\* IN_PROGRESS
C13_InProgressDespiteFailure ==
  \E r \in records :
     /\ job[r.jobId].status = "IN_PROGRESS"
     /\ \A w \in Workers : worker[w].pc = "idle"
     /\ \E x, y \in RowsOf(r.id) : x.workStatus = "FAILED" /\ y.workStatus = "COMPLETED"

\* C14: an agent call that fails leaves that agent's assignment FAILED with the
\* error message recorded, changes no other assignment and does not end the
\* dispatch: every other agent of the distribution is still called and its outcome
\* still recorded.
C14_FailedCallRecordedOthersGoOn ==
  /\ [][\A w \in Workers, a \in Agents :
          (AgentResponds(w, a, FALSE) /\ HasRow(worker[w].distId, a)) =>
            LET d == worker[w].distId
            IN /\ \E s \in assignments' :
                    /\ s.jobDistributionId = d
                    /\ s.agentId = a
                    /\ s.workStatus = "FAILED"
                    /\ s.errorMessage = "err"
               /\ \A r \in assignments : (r.jobDistributionId # d \/ r.agentId # a) => r \in assignments'
               /\ worker'[w].pc = "dispatch"
               /\ \A b \in Agents \ {a} : worker'[w].call[b] = worker[w].call[b]]_vars
  /\ [](\A w \in Workers, b \in Agents :
          worker[w].pc = "dispatch" =>
            /\ worker[w].call[b] = "todo" => ENABLED TrackAgent(w, b)
            /\ worker[w].call[b] = "inflight" =>
                 ENABLED AgentResponds(w, b, TRUE) /\ ENABLED AgentResponds(w, b, FALSE))

\* C14: one agent's call has failed and, later, the other agent of the same
\* dispatch was called and its result recorded
C14_OtherRecordedAfterFailure ==
  \E w \in Workers, a, b \in Agents :
     LET d == worker[w].distId
     IN /\ worker[w].pc = "dispatch"
        /\ HasRow(d, a) /\ HasRow(d, b)
        /\ Row(d, a).workStatus = "FAILED"
        /\ Row(d, a).errorMessage = "err"
        /\ Row(d, b).workStatus = "COMPLETED"
        /\ Row(d, b).executionResult = "res"
        /\ Row(d, b).completedAt > Row(d, a).completedAt

\* C15: callAgentAPI makes a further attempt after a failed one iff the error is
\* retryable (connection refused, connection reset, timeout, 5xx) and fewer than
\* maxRetries retries were made; a 4xx or a malformed payload ends the call after
\* one attempt.  The attempts made are thus 1 + the retryable failures met in a
\* row from the first attempt on, capped at maxRetries + 1.
C15_RetryPolicy ==
  rpc.state = "settled" =>
    LET retryable(m) == /\ ~m.ok
                        /\ m.axios
                        /\ \/ m.code \in {"ECONNREFUSED", "ECONNRESET", "ETIMEDOUT", "ECONNABORTED"}
                           \/ m.status >= 500
        expected == CHOOSE i \in 1..(rpc.maxRetries + 1) :
                      /\ i = rpc.maxRetries + 1 \/ ~retryable(rpc.mets[i])
                      /\ \A k \in 1..(i - 1) : retryable(rpc.mets[k])
    IN rpc.result.attempts = expected

\* C16: strategy first_completed selects, among the COMPLETED rows, one whose
\* completedAt is the earliest, whatever the order in which the rows are listed;
\* of several rows with that earliest completedAt it selects the one listed first.
C16_FirstCompletedEarliest ==
  (choice.state = "settled" /\ choice.strategy = "first_completed") =>
    LET rows == choice.assignedAgents
        completed == {i \in DOMAIN rows : rows[i].workStatus = "COMPLETED"}
        earliest == {i \in completed : \A k \in completed :
                                          rows[i].completedAt <= rows[k].completedAt}
    IN IF completed = {} THEN choice.selected = NoAgent
       ELSE \E i \in earliest : /\ \A k \in earliest : i <= k
                                 /\ choice.selected = rows[i].agentId

\* A choice made between two COMPLETED rows where the one listed second had
\* completed earlier, and was selected.
C16_LaterListedEarlierWins ==
  /\ choice.state = "settled" /\ choice.strategy = "first_completed"
  /\ Len(choice.assignedAgents) = 2
  /\ \A i \in 1..2 : choice.assignedAgents[i].workStatus = "COMPLETED"
  /\ choice.assignedAgents[2].completedAt < choice.assignedAgents[1].completedAt
  /\ choice.selected = choice.assignedAgents[2].agentId

\* C17: strategy best_scored selects the COMPLETED row with the highest result
\* score, the score of a COMPLETED row being 100 + max(0, 50 - executionTimeMs/60000)
\* + min(20, resultLength/100) (here in units of 1/ScoreUnit); so of two COMPLETED
\* rows with results of the same length the one with the shorter execution time,
\* 0 ms included, never scores lower.  Stated for rows whose execution time is known.
C17_BestScored ==
  (choice.state = "settled" /\ choice.strategy = "best_scored") =>
    LET rows == choice.assignedAgents
        completed == {i \in DOMAIN rows : rows[i].workStatus = "COMPLETED"}
        timed == {i \in completed : rows[i].executionTimeMs # NoMs}
        resultScore(r) == 100 * ScoreUnit + Max(0, 50 * ScoreUnit - r.executionTimeMs)
                          + Min(20 * ScoreUnit, (r.resultLength * ScoreUnit) \div 100)
        score(i) == calculateResultScore(AsExecution(rows[i]))
    IN /\ \A i \in timed : score(i) = resultScore(rows[i])
       /\ (completed # {} /\ timed = completed) =>
            \E i \in completed : /\ choice.selected = rows[i].agentId
                                  /\ \A k \in completed : resultScore(rows[i]) >= resultScore(rows[k])
       /\ \A i, k \in timed :
            (/\ rows[i].resultLength = rows[k].resultLength
             /\ rows[i].executionTimeMs <= rows[k].executionTimeMs) => score(i) >= score(k)

\* C18: selectBestAgentAndComplete on a distribution none of whose rows is COMPLETED
\* returns without choosing: it changes no record (so no winner), no job, no row,
\* and leaves no selection behind that would change them.
C18_NoCompletedNoOp ==
  [][\A d \in DistIds :
       (/\ SelectBestAgentAndComplete(d)
        /\ HasRecord(d)
        /\ ~\E r \in RowsOf(d) : r.workStatus = "COMPLETED")
       => UNCHANGED <<records, job, assignments, pendingSel>>]_vars

\* A selection has returned without a winner on a distribution whose calls were
\* all made and failed.
C18_ReturnedWithoutWinner ==
  \E d \in noWinner :
     /\ HasRecord(d)
     /\ RecordOf(d).assignedAgentId = NoAgent
     /\ job[RecordOf(d).jobId].status = "IN_PROGRESS"
     /\ \A r \in RowsOf(d) : r.workStatus = "FAILED"

\* C19: the writes of a winner selection are applied together or not at all.  A
\* step that records a new winner on a distribution also leaves its job COMPLETED
\* and none of its other rows ASSIGNED or WORKING; a step that cancels a row for
\* "Task completed by another agent" also records a winner and leaves the job
\* COMPLETED; a selection whose first write fails (the record is gone) changes
\* no record, job or row.
C19_SelectionAtomic ==
  [][/\ \A r \in records, r2 \in records' :
          (r2.id = r.id /\ r2.assignedAgentId # r.assignedAgentId) =>
            /\ job'[r.jobId].status = "COMPLETED"
            /\ ~\E x \in assignments' : /\ x.jobDistributionId = r.id
                                         /\ x.agentId # r2.assignedAgentId
                                         /\ x.workStatus \in ActiveStatuses
     /\ \A x \in assignments, x2 \in assignments' :
          (/\ x2.jobDistributionId = x.jobDistributionId /\ x2.agentId = x.agentId
           /\ x.workStatus \in ActiveStatuses
           /\ x2.workStatus = "CANCELLED"
           /\ x2.errorMessage = "Task completed by another agent") =>
            \E r2 \in records' : /\ r2.id = x.jobDistributionId
                                  /\ r2.assignedAgentId \notin {NoAgent, x.agentId}
                                  /\ job'[r2.jobId].status = "COMPLETED"
     /\ \A sel \in pendingSel :
          (CompleteSelection(sel) /\ ~HasRecord(sel.distributionId)) =>
            UNCHANGED <<records, job, assignments>>]_vars

\* A selection made while another agent was still working has been applied:
\* the winner is recorded, the job COMPLETED, the other row cancelled at that time.
C19_SelectionApplied ==
  \E r \in records :
     /\ r.assignedAgentId # NoAgent
     /\ job[r.jobId].status = "COMPLETED"
     /\ Row(r.id, r.assignedAgentId).workStatus = "COMPLETED"
     /\ \E x \in RowsOf(r.id) : /\ x.agentId # r.assignedAgentId
                                 /\ x.workStatus = "CANCELLED"
                                 /\ x.errorMessage = "Task completed by another agent"
                                 /\ x.completedAt = clock

\* C20: in the state that follows the opening of a distribution for a list of k
\* agents, the new record has totalAgents = assignedCount = k and responseCount = 0,
\* the distribution has exactly k rows, and each of them is ASSIGNED.
C20_OpenedCounts ==
  [][\A w \in Workers :
       (OpenDistribution(w) /\ records' # records) =>
         LET k == Cardinality(worker[w].agents)
             d == worker'[w].distId
             rows == {r \in assignments' : r.jobDistributionId = d}
         IN /\ \E r \in records' \ records :
                 /\ r.id = d
                 /\ r.totalAgents = k /\ r.assignedCount = k /\ r.responseCount = 0
            /\ Cardinality(rows) = k
            /\ {r.agentId : r \in rows} = worker[w].agents
            /\ \A r \in rows : r.workStatus = "ASSIGNED"]_vars

\* A distribution has just been opened for two agents: no call made yet.
C20_JustOpenedForTwo ==
  \E w \in Workers :
     /\ worker[w].pc = "dispatch"
     /\ Cardinality(worker[w].agents) = 2
     /\ \A a \in worker[w].agents : worker[w].call[a] = "todo"
     /\ HasRecord(worker[w].distId)
     /\ RecordOf(worker[w].distId).totalAgents = 2
     /\ Cardinality(RowsOf(worker[w].distId)) = 2

\* C21: in every state a distribution has at most one row per agent: two rows with
\* the same jobDistributionId and agentId are the same row.
C21_AgentOncePerDistribution ==
  \A r1, r2 \in assignments :
     (r1.jobDistributionId = r2.jobDistributionId /\ r1.agentId = r2.agentId) => r1 = r2

\* A distribution of two agents whose two rows have both been written again
\* since they were created.
C21_TwoRowsRewritten ==
  \E d \in DistIds :
     /\ {r.agentId : r \in RowsOf(d)} = Agents
     /\ Cardinality(RowsOf(d)) = Cardinality(Agents)
     /\ \A r \in RowsOf(d) : r.workStatus \in {"COMPLETED", "FAILED"} /\ r.startedAt # NoTime

\* C22: processTask for a job that was handled before (its status is no longer
\* OPEN: distributed, or COMPLETED, CANCELLED or EXPIRED, a job cancelled for lack
\* of agents included) leaves the status of that job as it is.
C22_IntakeKeepsStatus ==
  [][\A j \in Jobs :
       (ProcessTask(j) /\ job[j].status # "OPEN") => job'[j].status = job[j].status]_vars

\* C23: with jobs distributed concurrently, the step in which the distribution
\* of one job fails (no agent matched, the open refused, the dispatch broken off
\* because the job is gone) writes nothing but that job's CANCELLED status: every
\* other job, every distribution record and every row is left as it was.
C23_BatchFailureFrame ==
  [][LET OnlyCancels(j) ==
           /\ records' = records
           /\ assignments' = assignments
           /\ \A k \in Jobs \ {j} : job'[k] = job[k]
           /\ job'[j].status = IF JobExists(j) THEN "CANCELLED" ELSE "ABSENT"
     IN \A w \in Workers :
          /\ \A j \in Jobs : (MatchJob(w, j) /\ worker' = worker) => OnlyCancels(j)
          /\ (OpenDistribution(w) /\ worker[w].mode = "pass" /\ records' = records)
               => OnlyCancels(worker[w].jobId)
          /\ (FinishDispatch(w) /\ ~JobExists(worker[w].jobId))
               => OnlyCancels(worker[w].jobId)]_vars

\* A job of a pass was cancelled for lack of agents while the distribution of
\* another job was under way, and that one is as its own task left it.
C23_SiblingUntouched ==
  \E j \in noMatch, w \in Workers :
     /\ job[j].status = "CANCELLED"
     /\ worker[w].pc = "dispatch" /\ worker[w].mode = "pass" /\ worker[w].jobId # j
     /\ job[worker[w].jobId].status = "DISTRIBUTED"
     /\ HasRecord(worker[w].distId)
     /\ {r.agentId : r \in RowsOf(worker[w].distId)} = worker[w].agents

\* C24: a tracker transition whose log entry or performance row cannot be written
\* is carried out all the same.  When the log write fails the row takes the status
\* asked for and the request goes on to the response count; when the performance
\* write fails no row and no performance figure changes and the call settles (a
\* dispatch call is done, a result submission goes on to the selection).
C24_WriteFailureKeepsTransition ==
  [][/\ \A d \in DistIds, a \in Agents, request \in StatusRequests :
          UpdateAgentExecutionStatusUnlogged(d, a, request) =>
            /\ \E r \in assignments' : /\ r.jobDistributionId = d /\ r.agentId = a
                                        /\ r.workStatus = request.workStatus
            /\ records' = updateResponseCount(d, assignments')
     /\ \A h \in handlers :
          (WritePerformance(h) /\ PerfWriteFails(h.agentId, h.snap)) =>
            /\ assignments' = assignments
            /\ perf' = perf /\ agent' = agent
            /\ h \notin handlers'
            /\ IF h.origin \in Workers
               THEN worker'[h.origin].call[h.agentId] = "done"
               ELSE pendingSel' \in SelectStart(h.distributionId, "result")]_vars

\* An agent's row was set to FAILED by a status request whose log entry could
\* not be written: the row is FAILED and the log has no FAILED entry for it.
C24_FailedWithoutLogEntry ==
  \E r \in assignments :
     /\ r.workStatus = "FAILED"
     /\ r.errorMessage = "err"
     /\ HasRecord(r.jobDistributionId)
     /\ RecordOf(r.jobDistributionId).responseCount > 0
     /\ ~\E l \in logs : l.agentId = r.agentId /\ l.eventType = "FAILED"

\* C25: with the completed/failed calls of an agent made one at a time, each call
\* adds 1 to totalJobs and 1 to completedJobs (a success) or to failedJobs (a
\* failure) and to nothing else; in every state totalJobs = completedJobs +
\* failedJobs and successRate = completedJobs / totalJobs, and the agent's
\* totalJobsCompleted and successRate are those of its performance row.
C25_SequentialPerformance ==
  /\ [](\A p \in perf :
          /\ p.totalJobs = p.completedJobs + p.failedJobs
          /\ p.successRate = Ratio(p.completedJobs, p.totalJobs)
          /\ agent[p.agentId].totalJobsCompleted = p.completedJobs
          /\ agent[p.agentId].successRate = p.successRate)
  /\ [][\A h \in handlers :
          WritePerformance(h) =>
            LET a == h.agentId
                old == IF HasPerf(a) THEN PerfOf(a)
                       ELSE [totalJobs |-> 0, completedJobs |-> 0, failedJobs |-> 0]
            IN \E p \in perf' :
                  /\ p.agentId = a
                  /\ p.totalJobs = old.totalJobs + 1
                  /\ p.completedJobs = old.completedJobs + (IF h.isSuccess THEN 1 ELSE 0)
                  /\ p.failedJobs = old.failedJobs + (IF h.isSuccess THEN 0 ELSE 1)]_vars

\* An agent called for two jobs, one after the other, succeeded once and failed
\* once.
C25_OneSuccessOneFailure ==
  \E p \in perf :
     /\ p.totalJobs = 2 /\ p.completedJobs = 1 /\ p.failedJobs = 1
     /\ p.successRate = Ratio(1, 2)
     /\ agent[p.agentId].totalJobsCompleted = 1

\* C26: the matchCriteria written with a distribution record are the job's tags,
\* category, skillLevel and maxBudget of that moment, a maxBudget of 0 included,
\* and no later step changes the matchCriteria of a record.
C26_SnapshotFrozen ==
  [][/\ \A w \in Workers :
          (OpenDistribution(w) /\ records' # records) =>
            \E r \in records' \ records :
               r.matchCriteria = [tags |-> job[r.jobId].tags,
                                  category |-> job[r.jobId].category,
                                  skillLevel |-> job[r.jobId].skillLevel,
                                  maxBudget |-> job[r.jobId].maxBudget]
     /\ \A r \in records, r2 \in records' :
          r2.id = r.id => r2.matchCriteria = r.matchCriteria]_vars

\* C27: the match of a job returns exactly the agents that are active and auto-
\* accepting, hold no ASSIGNED or WORKING row, stand at least as high as the job on
\* beginner < intermediate < advanced < expert (a level off the scale, on either
\* side, passes), share a tag with the job when the job has tags, and, when the
\* job states a maximum budget, are free or priced at or below it.
C27_MatchIffRulesPass ==
  \A j \in Jobs :
     matchAgentsForJob(j) =
       {a \in Agents :
          /\ agent[a].isActive /\ agent[a].autoAcceptJobs
          /\ ~\E r \in assignments : r.agentId = a /\ r.workStatus \in {"ASSIGNED", "WORKING"}
          /\ \/ SkillIndex(agent[a].agentClassification) = -1
             \/ SkillIndex(job[j].skillLevel) = -1
             \/ SkillIndex(agent[a].agentClassification) >= SkillIndex(job[j].skillLevel)
          /\ job[j].tags # {} => job[j].tags \cap agent[a].tags # {}
          /\ job[j].maxBudget # NoBudget =>
               (agent[a].isFree \/ agent[a].price <= job[j].maxBudget)}

\* C28: skillMatch(job, agent) = min(1, r + b), r the fraction of the job's tags
\* the agent has (1 for a job without tags), b = 0.2 when the agent's
\* classification is the job's skill level, 0.1 when it is exactly one tier above
\* it, 0 otherwise.  Compared in tenths of 1/JobTagCount.
C28_SkillMatchFormula ==
  \A a \in Agents, j \in Jobs :
     LET n == JobTagCount(j)
         r == IF job[j].tags = {} THEN 10 * n
              ELSE 10 * Cardinality(job[j].tags \cap agent[a].tags)
         ai == SkillIndex(agent[a].agentClassification)
         ji == SkillIndex(job[j].skillLevel)
         b == IF agent[a].agentClassification = job[j].skillLevel THEN 2
              ELSE IF ai # -1 /\ ji # -1 /\ ai = ji + 1 THEN 1
              ELSE 0
     IN calculateSkillMatchNum(a, j) = Min(10 * n, r + b * n)

C30_BatchHealthCheck ==
  health.state = "settled" =>
    LET results == health.outcome.results
    IN /\ ~health.outcome.threw
       /\ Len(results) = Len(health.agentAddresses)
       /\ \A i \in DOMAIN health.agentAddresses :
            /\ results[i].agentAddress = health.agentAddresses[i]
            /\ (health.probes[i].threw \/ health.probes[i].body # "ok") => ~results[i].isHealthy
            /\ health.probes[i] = Probe(FALSE, 200, "ok") => results[i].isHealthy
            /\ results[i] = batchHealthCheck(<<health.agentAddresses[i]>>,
                                              <<health.probes[i]>>).results[1]

\* A batch of two agents, the first unreachable, the second in order, has
\* returned: the first is reported unhealthy, the second healthy.
C30_UnreachableNextToHealthy ==
  /\ health.state = "settled"
  /\ Len(health.agentAddresses) = 2
  /\ health.probes[1].threw /\ health.probes[2] = Probe(FALSE, 200, "ok")
  /\ ~health.outcome.results[1].isHealthy
  /\ health.outcome.results[2].isHealthy

\* C31: every change of an assignment's workStatus out of ASSIGNED or WORKING
\* follows an edge of the state machine (ASSIGNED to WORKING, WORKING to COMPLETED
\* or FAILED, either to TIMEOUT or CANCELLED): no step, the status and result
\* callbacks included, moves a row back to ASSIGNED or IDLE or from ASSIGNED
\* straight to COMPLETED or FAILED.
C31_TransitionsFollowEdges ==
  [][LET Edges == {<<"ASSIGNED", "WORKING">>, <<"WORKING", "COMPLETED">>,
                   <<"WORKING", "FAILED">>, <<"ASSIGNED", "TIMEOUT">>,
                   <<"WORKING", "TIMEOUT">>, <<"ASSIGNED", "CANCELLED">>,
                   <<"WORKING", "CANCELLED">>}
     IN \A r \in assignments :
          r.workStatus \in ActiveStatuses =>
            \A s \in assignments' :
               (s.jobDistributionId = r.jobDistributionId /\ s.agentId = r.agentId) =>
                 \/ s.workStatus = r.workStatus
                 \/ <<r.workStatus, s.workStatus>> \in Edges]_vars

\* C32: trackAgentExecution on an ASSIGNED row leaves it WORKING with startedAt
\* set; trackAgentExecution or updateExecutionStatus for a (distributionId,
\* agentId) without a row throws and changes no assignment, log entry or
\* performance row.
C32_TrackAndNotFound ==
  [][/\ \A a \in Agents :
          LET d == worker[FirstWorker].distId
          IN TrackAgent(FirstWorker, a) =>
               IF HasRow(d, a)
               THEN Row(d, a).workStatus = "ASSIGNED" =>
                      \E s \in assignments' :
                         /\ s.jobDistributionId = d /\ s.agentId = a
                         /\ s.workStatus = "WORKING"
                         /\ s.startedAt # NoTime
               ELSE /\ Thrown("trackAgentExecution", d, a) \in notFound'
                    /\ UNCHANGED <<assignments, logs, perf>>
     /\ \A d \in DistIds, a \in Agents, request \in StatusRequests :
          /\ UpdateAgentExecutionStatus(d, a, request) => HasRow(d, a)
          /\ UpdateAgentExecutionStatusNotFound(d, a, request) =>
               Thrown("updateExecutionStatus", d, a) \in notFound'
     /\ notFound' # notFound => UNCHANGED <<assignments, logs, perf>>]_vars

\* C32: one agent of a dispatch has been tracked (its call is under way and the
\* log has its WORKING entry), the track of the other has thrown because the job
\* was deleted in between, and a status update has thrown for want of its row
C32_TrackedAndThrown ==
  \E a, b \in Agents :
     /\ worker[FirstWorker].call[a] = "inflight"
     /\ \E l \in logs : l.agentId = a /\ l.eventType = "WORKING"
     /\ Thrown("trackAgentExecution", worker[FirstWorker].distId, b) \in notFound
     /\ \E t \in notFound : t.operation = "updateExecutionStatus"

\* C33: every change of an assignment's workStatus comes with an execution log
\* entry of its job, its agent and the new status, whichever operation makes the
\* change: the track, a completion, a failure, the sweep's TIMEOUT or the
\* selection's CANCELLED.
C33_EveryTransitionLogged ==
  [][\A r \in assignments, s \in assignments' :
       (/\ s.jobDistributionId = r.jobDistributionId
        /\ s.agentId = r.agentId
        /\ s.workStatus # r.workStatus) =>
         [jobId |-> RecordOf(r.jobDistributionId).jobId, agentId |-> r.agentId,
          eventType |-> s.workStatus] \in logs']_vars

\* C34: the performance row of an agent counts every assignment of the agent that
\* has entered a terminal status, whichever operation moved it there (a
\* completion, a failure, the sweep's TIMEOUT, the selection's CANCELLED): once no
\* performance write of the agent is under way, totalJobs is the number of its
\* terminal assignments.
C34_PerformanceCountsEveryTerminal ==
  \A a \in Agents :
     (\A h \in handlers : h.agentId # a) =>
       (IF HasPerf(a) THEN PerfOf(a).totalJobs ELSE 0) =
         Cardinality({r \in assignments : r.agentId = a /\ r.workStatus \in TerminalStatuses})

\* C35: avgExecutionTime is the running mean of the execution times of an
\* agent's successful completions: a successful completion that reports newTimeMs
\* writes newAvg with newAvg * newCompletedCount = oldAvg * oldCompletedCount +
\* newTimeMs, and a failure leaves the average as it was.
C35_RunningMean ==
  [][\A h \in handlers :
       (WritePerformance(h) /\ ~PerfWriteFails(h.agentId, h.snap)) =>
         LET old == IF h.snap = {} THEN [avgExecutionTime |-> Ratio(0, 1), completedJobs |-> 0]
                    ELSE CHOOSE p \in h.snap : TRUE
             new == CHOOSE p \in perf' : p.agentId = h.agentId
             oldAvg == old.avgExecutionTime
             newAvg == new.avgExecutionTime
         IN IF h.isSuccess
            THEN h.executionTimeMs # NoMs =>
                   /\ new.completedJobs = old.completedJobs + 1
                   /\ newAvg.n * new.completedJobs * oldAvg.d =
                        (oldAvg.n * old.completedJobs + h.executionTimeMs * oldAvg.d) * newAvg.d
            ELSE newAvg = oldAvg]_vars

\* C36, as stated: after updateResponseCount(d) the record's responseCount is the
\* number of the distribution's assignments that are no longer ASSIGNED.
C36_CountsEveryRowNotAssigned ==
  [][cbCount' # cbCount =>
      \A d \in DistIds, a \in Agents, request \in StatusRequests :
       (\/ UpdateAgentExecutionStatus(d, a, request)
        \/ UpdateAgentExecutionStatusUnlogged(d, a, request)) =>
         \A r \in records' :
            r.id = d =>
              r.responseCount =
                Cardinality({x \in assignments' :
                               x.jobDistributionId = d /\ x.workStatus # "ASSIGNED"})]_vars

\* C36, amended: after updateResponseCount(d) the record's responseCount is the
\* number of the distribution's assignments that are WORKING, COMPLETED or FAILED
\* (rows that are CANCELLED or TIMEOUT are not counted).
C36_CountsWorkingCompletedFailed ==
  [][cbCount' # cbCount =>
      \A d \in DistIds, a \in Agents, request \in StatusRequests :
       (\/ UpdateAgentExecutionStatus(d, a, request)
        \/ UpdateAgentExecutionStatusUnlogged(d, a, request)) =>
         /\ \E r \in records' : r.id = d
         /\ \A r \in records' :
              r.id = d =>
                r.responseCount =
                  Cardinality({x \in assignments' :
                                 /\ x.jobDistributionId = d
                                 /\ x.workStatus \in {"WORKING", "COMPLETED", "FAILED"}})]_vars

\* C36: the response count was written after the selection had cancelled a row:
\* the other row reached its status later than the cancellation, through the
\* status endpoint, and the count is 1 of 2 rows
C36_CancelledRowNotCounted ==
  \E r \in records :
     /\ r.responseCount = 1
     /\ Cardinality(RowsOf(r.id)) = 2
     /\ \E x, y \in RowsOf(r.id) :
          /\ x.workStatus = "CANCELLED"
          /\ y.workStatus \in {"COMPLETED", "FAILED"}
          /\ y.completedAt > x.completedAt

\* C37: the responseCount of a distribution record never decreases, across
\* transitions, selections and updateResponseCount calls.
C37_ResponseCountMonotonic ==
  [][\A r \in records, s \in records' :
       s.id = r.id => s.responseCount >= r.responseCount]_vars

\* C38: in every state, the winner recorded on a distribution record has an
\* assignment in that distribution and that assignment is COMPLETED.
C38_WinnerIsCompleted ==
  \A r \in records :
     r.assignedAgentId # NoAgent =>
       /\ HasRow(r.id, r.assignedAgentId)
       /\ Row(r.id, r.assignedAgentId).workStatus = "COMPLETED"

\* C39: when two passes pick up the same job, the pass whose open is refused
\* leaves the job and the existing distribution alone: no job is CANCELLED while
\* its distribution has an assignment that is ASSIGNED, WORKING or COMPLETED.
C39_RefusedOpenLeavesJob ==
  \A j \in Jobs :
     job[j].status = "CANCELLED" =>
       \A r \in RecordsOfJob(j) :
          \A x \in RowsOf(r.id) : x.workStatus \notin {"ASSIGNED", "WORKING", "COMPLETED"}

\* C40: every assignment created by opening a distribution eventually reaches a
\* terminal status (COMPLETED, FAILED, CANCELLED or TIMEOUT), so that its agent
\* becomes available to the matcher again.
C40_AssignmentEventuallyTerminal ==
  \A d \in DistIds, a \in Agents :
     (HasRow(d, a) /\ Row(d, a).workStatus = "ASSIGNED") ~>
       (HasRow(d, a) /\ Row(d, a).workStatus \in TerminalStatuses)
====
